---- MODULE Spec2Model ----
(***************************************************************************)
(* Bounded producer/consumer message queue of OSaSP-lab05                  *)
(* (src/src/queue_manager.c, second translation unit, lines 445-984;       *)
(* src/src/main.c; src/src/producer.c; consumer.c).                        *)
(*                                                                         *)
(* Threads: the main thread (command loop, queue_resize, cleanup_threads)  *)
(* and the producer / consumer worker threads.  Every blocking point of    *)
(* the code (sem_wait, pthread_mutex_lock, pthread_cond_wait,              *)
(* pthread_join) separates two steps of the thread that executes it.       *)
(***************************************************************************)
EXTENDS Integers, Sequences, FiniteSets, TLC

\* ---------------------------------------------------------------- bounds
\* MaxCap and InitCap scale MAX_QUEUE_CAPACITY (100) and
\* INITIAL_QUEUE_CAPACITY (10) of common.h down; MaxMsgs bounds the number of
\* messages the producers create; MaxDelta bounds the magnitude of the change
\* passed to queue_resize.
MaxCap == 3
InitCap == 2
MaxMsgs == 3
MaxDelta == 2
MaxSize == 3

\* ------------------------------------------------------ program constants
MIN_QUEUE_CAPACITY == 1
MAX_QUEUE_CAPACITY == MaxCap
INITIAL_QUEUE_CAPACITY == InitCap
\* common.h has 10 slots per role; the model runs with one slot per role
MAX_PRODUCERS == 1
MAX_CONSUMERS == 1
ShutdownSlack == 5
ShutdownPosts == MAX_PRODUCERS + MAX_CONSUMERS + ShutdownSlack

SYNC_MODE_SEM == "sem"
SYNC_MODE_CONDVAR == "cond"

\* ---------------------------------------------------------------- threads
Producers == {<<"P", i>> : i \in 1..MAX_PRODUCERS}
Consumers == {<<"C", i>> : i \in 1..MAX_CONSUMERS}
Workers == Producers \cup Consumers
MainThread == <<"M", 0>>
NoThread == <<"N", 0>>
\* owner of a mutex that a cancelled thread held when it terminated
DeadThread == <<"D", 0>>

Junk == 0
Deltas == (0 - MaxDelta)..MaxDelta

\* the values of an int, scaled to 4 bits, and the modulus of size_t, scaled
\* to 8 bits
IntRange == (0 - 8)..7
IntMin == 0 - 8
SizeMod == 2 ^ 8

\* the locals cap, count, added, extracted of case 's' before they are read
NoSnap == [cap |-> 0, count |-> 0, added |-> 0, extracted |-> 0]

\* unsigned short arithmetic
UShortMod == 2 ^ 16

\* MAX_DATA_SIZE, scaled: msg->size is an unsigned char and stays below it
MAX_DATA_SIZE == MaxSize + 1

\* sample values of an unsigned char
ByteSamples == {1, 255}

\* message_t: type, hash, size, data[MAX_DATA_SIZE]
Messages ==
    [type : ByteSamples,
     hash : {0, 4660},
     size : 0..MaxSize,
     data : [0..(MAX_DATA_SIZE - 1) -> ByteSamples]]

\* the message before one is under calculation
NoMessage ==
    [type |-> 0, hash |-> 0, size |-> 0,
     data |-> [i \in 0..(MAX_DATA_SIZE - 1) |-> 0]]

\* the messages a producer builds before the hash is calculated: rand_r
\* gives type, size and data[0..size-1]; data from index size on is never
\* written and holds whatever the stack held; hash is 0.  Sampled: type 255,
\* size 0 or the largest, 255 in the written bytes, 1 in the others
ProducerSamples ==
    {m \in Messages :
        /\ m.hash = 0
        /\ m.type = 255
        /\ m.size \in {0, MaxSize}
        /\ \A i \in 0..(MAX_DATA_SIZE - 1) :
              m.data[i] = IF i < m.size THEN 255 ELSE 1}

\* the capacities that can be requested from queue_create
Requests == 0..(MaxCap + 1)

VARIABLES
    g_sync_mode, g_terminate_flag,
    messages, capacity, count, head_idx, tail_idx,
    added_count_total, extracted_count_total,
    mutex, empty_slots, full_slots,
    pc, msg, rv, call_commit,
    main_pc, change, remaining, m_rv, loop_i,
    producer_created_count, consumer_created_count, queue_alive,
    destroy_count, producer_active_count, consumer_active_count,
    stop_requested,
    enqSeq, deqSeq, created, resize_wrapped,
    snap, old_capacity,
    h_msg, h_out, hash_ok

qvars == <<messages, capacity, count, head_idx, tail_idx,
           added_count_total, extracted_count_total>>
semvars == <<empty_slots, full_slots>>
wvars == <<pc, msg, rv, call_commit>>
mvars == <<main_pc, change, remaining, m_rv, loop_i, snap, old_capacity>>
tvars == <<producer_created_count, consumer_created_count, queue_alive,
           destroy_count, producer_active_count, consumer_active_count,
           stop_requested>>
hvars == <<enqSeq, deqSeq, resize_wrapped>>
gvars == <<g_sync_mode, g_terminate_flag, h_msg, h_out, hash_ok>>
vars == <<g_sync_mode, g_terminate_flag,
          messages, capacity, count, head_idx, tail_idx,
          added_count_total, extracted_count_total,
          mutex, empty_slots, full_slots,
          pc, msg, rv, call_commit,
          main_pc, change, remaining, m_rv, loop_i,
          producer_created_count, consumer_created_count, queue_alive,
          destroy_count, producer_active_count, consumer_active_count,
          stop_requested,
          enqSeq, deqSeq, created, resize_wrapped, snap, old_capacity, h_msg, h_out,
          hash_ok>>

\* ------------------------------------------------------- pure operators
\* variant of CreateCapacity without the upper clamp
CreateCapacity_noMax(req) ==
    LET c0 == IF req = 0 THEN INITIAL_QUEUE_CAPACITY ELSE req
    IN  IF c0 < MIN_QUEUE_CAPACITY THEN MIN_QUEUE_CAPACITY ELSE c0

\* queue_create: clamping of the requested capacity
CreateCapacity(req) ==
    LET c0 == IF req = 0 THEN INITIAL_QUEUE_CAPACITY ELSE req
        c1 == IF c0 < MIN_QUEUE_CAPACITY THEN MIN_QUEUE_CAPACITY ELSE c0
    IN  IF c1 > MAX_QUEUE_CAPACITY THEN MAX_QUEUE_CAPACITY ELSE c1

\* the conversion (size_t) of an int value
ToSizeT(v) == IF v < 0 THEN v + SizeMod ELSE v

\* queue_resize, change < 0: the target for decrease_amount = dec
ShrinkTo(old, dec) ==
    LET n == IF dec >= old THEN MIN_QUEUE_CAPACITY ELSE old - dec
    IN  IF n < MIN_QUEUE_CAPACITY THEN MIN_QUEUE_CAPACITY ELSE n

\* queue_resize: the clamped target capacity for a non-zero change other
\* than the smallest int
NewCapacity(old, chg) ==
    IF chg > 0
    THEN LET n == IF chg > MAX_QUEUE_CAPACITY - old
                  THEN MAX_QUEUE_CAPACITY ELSE old + chg
         IN  IF n > MAX_QUEUE_CAPACITY THEN MAX_QUEUE_CAPACITY ELSE n
    ELSE ShrinkTo(old, ToSizeT(0 - chg))

\* queue_resize: the targets the code can compute.  For the smallest int
\* the negation -change overflows (undefined): any int may result.
NewCapacities(old, chg) ==
    IF chg = IntMin
    THEN {ShrinkTo(old, ToSizeT(v)) : v \in IntRange}
    ELSE {NewCapacity(old, chg)}

\* variant of ResizeNoop: the no-op test is missing
ResizeNoop_never(new_capacity, old_cap) == FALSE

\* queue_resize: "if (new_capacity == old_capacity)" no-op test
ResizeNoop(new_capacity, old_cap) == new_capacity = old_cap

\* variant of ResizeRejected: the rejection test is missing
ResizeRejected_never(new_capacity, current_count) == FALSE

\* queue_resize: "if (new_capacity < current_count)" rejection test
ResizeRejected(new_capacity, current_count) == new_capacity < current_count

\* variant of Linearize that copies from index 0 instead of from the head
Linearize_noHead(buf, head, cnt, oldcap, newcap) ==
    [i \in 0..(newcap - 1) |->
        IF i < cnt THEN buf[i % oldcap] ELSE Junk]

\* queue_resize: the freshly allocated buffer after the linear copy
Linearize(buf, head, cnt, oldcap, newcap) ==
    [i \in 0..(newcap - 1) |->
        IF i < cnt THEN buf[(head + i) % oldcap] ELSE Junk]

\* variant of ResizeTail that always puts the tail at index 0
ResizeTail_zero(cnt, newcap) == 0

\* queue_resize: tail index after the copy
ResizeTail(cnt, newcap) == IF cnt = newcap /\ newcap > 0 THEN 0 ELSE cnt

\* the live records in logical (head-first) order
Contents ==
    [i \in 1..count |-> messages[(head_idx + i - 1) % capacity]]

\* pthread_cond_signal: one waiter parked on the condvar (if any) resumes
\* and has to re-acquire the mutex
WakeOne(f, parked, relock) ==
    IF {t \in Workers : f[t] = parked} = {}
    THEN {f}
    ELSE {[f EXCEPT ![w] = relock] : w \in {t \in Workers : f[t] = parked}}

\* pthread_cond_broadcast: every waiter parked on the condvar resumes
WakeAll(f, parked, relock) ==
    [t \in Workers |-> IF f[t] = parked THEN relock ELSE f[t]]

\* ------------------------------------------------------------------ Init
\* hash = (hash << 5) + hash + byte, stored in an unsigned short
HashStep(hash, byte) == ((hash * 32) + hash + byte) % UShortMod

\* the for loop of calculate_message_hash from index i on, i < bound
RECURSIVE HashLoop(_, _, _, _)
HashLoop(hash, data, i, bound) ==
    IF i < bound
    THEN HashLoop(HashStep(hash, data[i]), data, i + 1, bound)
    ELSE hash

\* variant of calculate_message_hash whose loop runs over the whole array
calculate_message_hash_allData(m) ==
    HashLoop(HashStep(HashStep(0, m.type), m.size), m.data, 0, MAX_DATA_SIZE)

\* calculate_message_hash(msg)
calculate_message_hash(m) ==
    HashLoop(HashStep(HashStep(0, m.type), m.size), m.data, 0, m.size)

\* the state after queue_create(req, g_sync_mode), no threads yet
InitWith(req) ==
    /\ g_sync_mode \in {SYNC_MODE_SEM, SYNC_MODE_CONDVAR}
    /\ g_terminate_flag = FALSE
    /\ capacity = CreateCapacity(req)
    /\ messages = [i \in 0..(CreateCapacity(req) - 1) |-> Junk]
    /\ count = 0
    /\ head_idx = 0
    /\ tail_idx = 0
    /\ added_count_total = 0
    /\ extracted_count_total = 0
    /\ mutex = NoThread
    /\ empty_slots = IF g_sync_mode = SYNC_MODE_SEM
                     THEN CreateCapacity(req) ELSE 0
    /\ full_slots = 0
    /\ pc = [t \in Workers |-> "none"]
    /\ msg = [t \in Workers |-> Junk]
    /\ rv = [t \in Workers |-> 0]
    /\ call_commit = [t \in Workers |-> FALSE]
    /\ main_pc = "idle"
    /\ change = 0
    /\ remaining = 0
    /\ m_rv = 0
    /\ loop_i = 0
    /\ producer_created_count = 0
    /\ consumer_created_count = 0
    /\ queue_alive = TRUE
    /\ destroy_count = 0
    /\ producer_active_count = 0
    /\ consumer_active_count = 0
    /\ stop_requested = [role \in {"P", "C"} |-> FALSE]
    /\ enqSeq = <<>>
    /\ deqSeq = <<>>
    /\ created = 0
    /\ resize_wrapped = FALSE
    /\ snap = NoSnap
    /\ old_capacity = 0
    /\ hash_ok = [c \in Consumers |-> "none"]

\* main(): g_sync_mode from the command line,
\* queue_create(INITIAL_QUEUE_CAPACITY, g_sync_mode)
Init ==
    /\ InitWith(INITIAL_QUEUE_CAPACITY)
    /\ h_msg = NoMessage
    /\ h_out = 0 - 1

\* ------------------------------------------------------- worker threads
\* producer_thread_func: loop test, message creation, call of queue_add
producer_thread_func(p) ==
    /\ pc[p] = "top"
    /\ IF g_terminate_flag
       THEN /\ pc' = [pc EXCEPT ![p] = "exit"]
            /\ UNCHANGED <<msg, call_commit, created>>
       ELSE /\ created < MaxMsgs
            /\ created' = created + 1
            /\ msg' = [msg EXCEPT ![p] = created + 1]
            /\ call_commit' = [call_commit EXCEPT ![p] = FALSE]
            /\ pc' = [pc EXCEPT ![p] =
                        IF g_sync_mode = SYNC_MODE_SEM THEN "a_wait" ELSE "a_lock"]
    /\ UNCHANGED <<qvars, mutex, semvars, rv, mvars, tvars, hvars, gvars>>

\* consumer_thread_func: loop test, call of queue_remove
consumer_thread_func(c) ==
    /\ pc[c] = "top"
    /\ IF g_terminate_flag
       THEN /\ pc' = [pc EXCEPT ![c] = "exit"]
            /\ UNCHANGED call_commit
       ELSE /\ call_commit' = [call_commit EXCEPT ![c] = FALSE]
            /\ pc' = [pc EXCEPT ![c] =
                        IF g_sync_mode = SYNC_MODE_SEM THEN "r_wait" ELSE "r_lock"]
    /\ UNCHANGED <<qvars, mutex, semvars, msg, rv, mvars, tvars, hvars, gvars, created>>

\* queue_get_added_total / queue_get_extracted_total after a successful
\* call: lock, read, unlock; then printf and nanosleep, back to the loop test
queue_get_total(t) ==
    /\ pc[t] = "stat"
    /\ mutex = NoThread
    /\ pc' = [pc EXCEPT ![t] = "top"]
    /\ msg' = [msg EXCEPT ![t] = Junk]
    /\ UNCHANGED <<qvars, mutex, semvars, rv, call_commit, mvars, tvars, hvars,
                   gvars, created>>

\* variant of producer_create_message in which the hash is calculated
\* before msg.size is set
producer_create_message_hashFirst(p) ==
    /\ pc[p] = "top"
    /\ IF g_terminate_flag
       THEN /\ pc' = [pc EXCEPT ![p] = "exit"]
            /\ UNCHANGED <<msg, call_commit, created>>
       ELSE /\ created < MaxMsgs
            /\ created' = created + 1
            /\ \E m \in ProducerSamples :
                  msg' = [msg EXCEPT ![p] =
                            [m EXCEPT !.hash =
                                calculate_message_hash([m EXCEPT !.size = 0])]]
            /\ call_commit' = [call_commit EXCEPT ![p] = FALSE]
            /\ pc' = [pc EXCEPT ![p] =
                        IF g_sync_mode = SYNC_MODE_SEM THEN "a_wait" ELSE "a_lock"]
    /\ UNCHANGED <<qvars, mutex, semvars, rv, mvars, tvars, hvars, gvars>>

\* producer_thread_func with the message as a message_t: loop test, the
\* fields from rand_r, msg.hash = 0, msg.hash = calculate_message_hash(&msg),
\* call of queue_add
producer_create_message(p) ==
    /\ pc[p] = "top"
    /\ IF g_terminate_flag
       THEN /\ pc' = [pc EXCEPT ![p] = "exit"]
            /\ UNCHANGED <<msg, call_commit, created>>
       ELSE /\ created < MaxMsgs
            /\ created' = created + 1
            /\ \E m \in ProducerSamples :
                  msg' = [msg EXCEPT ![p] =
                            [m EXCEPT !.hash = calculate_message_hash(m)]]
            /\ call_commit' = [call_commit EXCEPT ![p] = FALSE]
            /\ pc' = [pc EXCEPT ![p] =
                        IF g_sync_mode = SYNC_MODE_SEM THEN "a_wait" ELSE "a_lock"]
    /\ UNCHANGED <<qvars, mutex, semvars, rv, mvars, tvars, hvars, gvars>>

\* consumer_thread_func after a successful queue_remove: original_hash =
\* msg.hash, msg.hash = 0, calculated_hash = calculate_message_hash(&msg),
\* hash_ok; then queue_get_extracted_total (lock, read, unlock), the output
\* and the delay, back to the loop test
consumer_verify_hash(c) ==
    /\ pc[c] = "stat"
    /\ c \in Consumers
    /\ mutex = NoThread
    /\ LET original_hash == msg[c].hash
           calculated_hash ==
               calculate_message_hash([msg[c] EXCEPT !.hash = 0])
       IN  hash_ok' = [hash_ok EXCEPT ![c] =
                          IF original_hash = calculated_hash
                          THEN "OK" ELSE "FAIL"]
    /\ pc' = [pc EXCEPT ![c] = "top"]
    /\ msg' = [msg EXCEPT ![c] = Junk]
    /\ UNCHANGED <<qvars, mutex, semvars, rv, call_commit, mvars, tvars, hvars,
                   g_sync_mode, g_terminate_flag, h_msg, h_out, created>>

\* variant of EnqueueCommit that forgets q->added_count_total++
EnqueueCommit_noTotal(p) ==
    /\ messages' = [messages EXCEPT ![tail_idx] = msg[p]]
    /\ tail_idx' = (tail_idx + 1) % capacity
    /\ count' = count + 1
    /\ enqSeq' = Append(enqSeq, msg[p])
    /\ call_commit' = [call_commit EXCEPT ![p] = TRUE]
    /\ UNCHANGED <<capacity, head_idx, extracted_count_total, deqSeq,
                   resize_wrapped, added_count_total>>

\* the commit of an enqueue (memcpy, tail, count, added total)
EnqueueCommit(p) ==
    /\ messages' = [messages EXCEPT ![tail_idx] = msg[p]]
    /\ tail_idx' = (tail_idx + 1) % capacity
    /\ count' = count + 1
    /\ added_count_total' = added_count_total + 1
    /\ enqSeq' = Append(enqSeq, msg[p])
    /\ call_commit' = [call_commit EXCEPT ![p] = TRUE]
    /\ UNCHANGED <<capacity, head_idx, extracted_count_total, deqSeq,
                   resize_wrapped>>

\* variant of DequeueCommit that does not advance q->head_idx
DequeueCommit_noAdvance(c) ==
    /\ msg' = [msg EXCEPT ![c] = messages[head_idx]]
    /\ deqSeq' = Append(deqSeq, messages[head_idx])
    /\ count' = count - 1
    /\ extracted_count_total' = extracted_count_total + 1
    /\ call_commit' = [call_commit EXCEPT ![c] = TRUE]
    /\ UNCHANGED <<messages, capacity, tail_idx, added_count_total, enqSeq,
                   resize_wrapped, head_idx>>

\* the commit of a dequeue (memcpy, head, count, extracted total)
DequeueCommit(c) ==
    /\ msg' = [msg EXCEPT ![c] = messages[head_idx]]
    /\ deqSeq' = Append(deqSeq, messages[head_idx])
    /\ head_idx' = (head_idx + 1) % capacity
    /\ count' = count - 1
    /\ extracted_count_total' = extracted_count_total + 1
    /\ call_commit' = [call_commit EXCEPT ![c] = TRUE]
    /\ UNCHANGED <<messages, capacity, tail_idx, added_count_total, enqSeq,
                   resize_wrapped>>

\* --------------------------------------------------------- queue_add_sem
\* sem_wait(&q->empty_slots) succeeds
queue_add_sem_wait(p) ==
    /\ pc[p] = "a_wait"
    /\ empty_slots > 0
    /\ empty_slots' = empty_slots - 1
    /\ pc' = [pc EXCEPT ![p] = "a_chk"]
    /\ UNCHANGED <<qvars, mutex, full_slots, msg, rv, call_commit, mvars, tvars,
                   hvars, gvars, created>>

\* variant of queue_add_sem_eintr that returns -1 on every interruption
queue_add_sem_eintr_noRetry(p) ==
    /\ pc[p] = "a_wait"
    /\ pc' = [pc EXCEPT ![p] = "exit"]
    /\ rv' = [rv EXCEPT ![p] = 0 - 1]
    /\ UNCHANGED <<qvars, mutex, semvars, msg, call_commit, mvars, tvars,
                   hvars, gvars, created>>

\* sem_wait returns -1 with EINTR: return -1 if terminating, else retry
queue_add_sem_eintr(p) ==
    /\ pc[p] = "a_wait"
    /\ IF g_terminate_flag
       THEN /\ pc' = [pc EXCEPT ![p] = "exit"]
            /\ rv' = [rv EXCEPT ![p] = 0 - 1]
       ELSE UNCHANGED <<pc, rv>>
    /\ UNCHANGED <<qvars, mutex, semvars, msg, call_commit, mvars, tvars,
                   hvars, gvars, created>>

\* variant of queue_add_sem_check without the test of the flag
queue_add_sem_check_noFlag(p) ==
    /\ pc[p] = "a_chk"
    /\ pc' = [pc EXCEPT ![p] = "a_lock"]
    /\ UNCHANGED <<empty_slots, rv>>
    /\ UNCHANGED <<qvars, mutex, full_slots, msg, call_commit, mvars, tvars,
                   hvars, gvars, created>>

\* termination check after the wait, before the lock
queue_add_sem_check(p) ==
    /\ pc[p] = "a_chk"
    /\ IF g_terminate_flag
       THEN /\ empty_slots' = empty_slots + 1
            /\ pc' = [pc EXCEPT ![p] = "exit"]
            /\ rv' = [rv EXCEPT ![p] = 0 - 1]
       ELSE /\ pc' = [pc EXCEPT ![p] = "a_lock"]
            /\ UNCHANGED <<empty_slots, rv>>
    /\ UNCHANGED <<qvars, mutex, full_slots, msg, call_commit, mvars, tvars,
                   hvars, gvars, created>>

\* variant of queue_add_lock that does not wait for the mutex to be free
queue_add_lock_noWait(p) ==
    /\ pc[p] = "a_lock"
    /\ mutex' = p
    /\ pc' = [pc EXCEPT ![p] = "a_cs"]
    /\ UNCHANGED <<qvars, semvars, msg, rv, call_commit, mvars, tvars, hvars,
                   gvars, created>>

\* pthread_mutex_lock (both strategies)
queue_add_lock(p) ==
    /\ pc[p] = "a_lock"
    /\ mutex = NoThread
    /\ mutex' = p
    /\ pc' = [pc EXCEPT ![p] = "a_cs"]
    /\ UNCHANGED <<qvars, semvars, msg, rv, call_commit, mvars, tvars, hvars,
                   gvars, created>>

\* critical section: defensive full check, commit, unlock
queue_add_sem_cs(p) ==
    /\ pc[p] = "a_cs"
    /\ g_sync_mode = SYNC_MODE_SEM
    /\ mutex' = NoThread
    /\ IF count >= capacity
       THEN /\ empty_slots' = empty_slots + 1
            /\ pc' = [pc EXCEPT ![p] = "exit"]
            /\ rv' = [rv EXCEPT ![p] = 0 - 1]
            /\ UNCHANGED <<qvars, hvars, call_commit>>
       ELSE /\ EnqueueCommit(p)
            /\ pc' = [pc EXCEPT ![p] = "a_post"]
            /\ UNCHANGED <<empty_slots, rv>>
    /\ UNCHANGED <<full_slots, msg, mvars, tvars, gvars, created>>

\* variant of queue_add_sem_post with a termination check after the commit
queue_add_sem_post_late(p) ==
    /\ pc[p] = "a_post"
    /\ full_slots' = full_slots + 1
    /\ IF g_terminate_flag
       THEN /\ pc' = [pc EXCEPT ![p] = "exit"]
            /\ rv' = [rv EXCEPT ![p] = 0 - 1]
       ELSE /\ pc' = [pc EXCEPT ![p] = "stat"]
            /\ UNCHANGED rv
    /\ UNCHANGED <<qvars, mutex, empty_slots, msg, call_commit, mvars, tvars,
                   hvars, gvars, created>>

\* sem_post(&q->full_slots); return 0
queue_add_sem_post(p) ==
    /\ pc[p] = "a_post"
    /\ full_slots' = full_slots + 1
    /\ pc' = [pc EXCEPT ![p] = "stat"]
    /\ UNCHANGED <<qvars, mutex, empty_slots, msg, rv, call_commit, mvars, tvars,
                   hvars, gvars, created>>

\* ------------------------------------------------------ queue_remove_sem
queue_remove_sem_wait(c) ==
    /\ pc[c] = "r_wait"
    /\ full_slots > 0
    /\ full_slots' = full_slots - 1
    /\ pc' = [pc EXCEPT ![c] = "r_chk"]
    /\ UNCHANGED <<qvars, mutex, empty_slots, msg, rv, call_commit, mvars, tvars,
                   hvars, gvars, created>>

queue_remove_sem_eintr(c) ==
    /\ pc[c] = "r_wait"
    /\ IF g_terminate_flag
       THEN /\ pc' = [pc EXCEPT ![c] = "exit"]
            /\ rv' = [rv EXCEPT ![c] = 0 - 1]
       ELSE UNCHANGED <<pc, rv>>
    /\ UNCHANGED <<qvars, mutex, semvars, msg, call_commit, mvars, tvars,
                   hvars, gvars, created>>

\* variant of queue_remove_sem_check that returns without sem_post
queue_remove_sem_check_noRepost(c) ==
    /\ pc[c] = "r_chk"
    /\ IF g_terminate_flag
       THEN /\ pc' = [pc EXCEPT ![c] = "exit"]
            /\ rv' = [rv EXCEPT ![c] = 0 - 1]
            /\ UNCHANGED full_slots
       ELSE /\ pc' = [pc EXCEPT ![c] = "r_lock"]
            /\ UNCHANGED <<full_slots, rv>>
    /\ UNCHANGED <<qvars, mutex, empty_slots, msg, call_commit, mvars, tvars,
                   hvars, gvars, created>>

\* termination check after the wait, before the lock
queue_remove_sem_check(c) ==
    /\ pc[c] = "r_chk"
    /\ IF g_terminate_flag
       THEN /\ full_slots' = full_slots + 1
            /\ pc' = [pc EXCEPT ![c] = "exit"]
            /\ rv' = [rv EXCEPT ![c] = 0 - 1]
       ELSE /\ pc' = [pc EXCEPT ![c] = "r_lock"]
            /\ UNCHANGED <<full_slots, rv>>
    /\ UNCHANGED <<qvars, mutex, empty_slots, msg, call_commit, mvars, tvars,
                   hvars, gvars, created>>

queue_remove_lock(c) ==
    /\ pc[c] = "r_lock"
    /\ mutex = NoThread
    /\ mutex' = c
    /\ pc' = [pc EXCEPT ![c] = "r_cs"]
    /\ UNCHANGED <<qvars, semvars, msg, rv, call_commit, mvars, tvars, hvars,
                   gvars, created>>

queue_remove_sem_cs(c) ==
    /\ pc[c] = "r_cs"
    /\ g_sync_mode = SYNC_MODE_SEM
    /\ mutex' = NoThread
    /\ IF count = 0
       THEN /\ full_slots' = full_slots + 1
            /\ pc' = [pc EXCEPT ![c] = "exit"]
            /\ rv' = [rv EXCEPT ![c] = 0 - 1]
            /\ UNCHANGED <<qvars, hvars, call_commit, msg>>
       ELSE /\ DequeueCommit(c)
            /\ pc' = [pc EXCEPT ![c] = "r_post"]
            /\ UNCHANGED <<full_slots, rv>>
    /\ UNCHANGED <<empty_slots, mvars, tvars, gvars, created>>

queue_remove_sem_post(c) ==
    /\ pc[c] = "r_post"
    /\ empty_slots' = empty_slots + 1
    /\ pc' = [pc EXCEPT ![c] = "stat"]
    /\ UNCHANGED <<qvars, mutex, full_slots, msg, rv, call_commit, mvars, tvars,
                   hvars, gvars, created>>

\* ------------------------------------------------------ queue_add_condvar
\* variant of queue_add_condvar_cs without the wait loop and without the
\* full check: the message is stored whenever the flag is clear
queue_add_condvar_cs_noPredicate(p) ==
    /\ pc[p] = "a_cs"
    /\ g_sync_mode = SYNC_MODE_CONDVAR
    /\ IF g_terminate_flag
       THEN /\ mutex' = NoThread
            /\ pc' = [pc EXCEPT ![p] = "exit"]
            /\ rv' = [rv EXCEPT ![p] = 0 - 1]
            /\ UNCHANGED <<qvars, hvars, call_commit>>
       ELSE /\ EnqueueCommit(p)
            /\ mutex' = NoThread
            /\ pc' \in WakeOne([pc EXCEPT ![p] = "stat"], "r_parked", "r_lock")
            /\ UNCHANGED rv
    /\ UNCHANGED <<semvars, msg, mvars, tvars, gvars, created>>

\* under the lock: the wait predicate, the termination check, the defensive
\* full check, the commit with pthread_cond_signal(not_empty), the unlock
queue_add_condvar_cs(p) ==
    /\ pc[p] = "a_cs"
    /\ g_sync_mode = SYNC_MODE_CONDVAR
    /\ IF count = capacity /\ ~g_terminate_flag
       THEN /\ pc' = [pc EXCEPT ![p] = "a_park"]
            /\ UNCHANGED <<qvars, hvars, call_commit, mutex, rv>>
       ELSE IF g_terminate_flag \/ count >= capacity
       THEN /\ mutex' = NoThread
            /\ pc' = [pc EXCEPT ![p] = "exit"]
            /\ rv' = [rv EXCEPT ![p] = 0 - 1]
            /\ UNCHANGED <<qvars, hvars, call_commit>>
       ELSE /\ EnqueueCommit(p)
            /\ mutex' = NoThread
            /\ pc' \in WakeOne([pc EXCEPT ![p] = "stat"], "r_parked", "r_lock")
            /\ UNCHANGED rv
    /\ UNCHANGED <<semvars, msg, mvars, tvars, gvars, created>>

\* pthread_cond_wait(&q->not_full, &q->mutex): release the mutex and park
queue_add_condvar_wait(p) ==
    /\ pc[p] = "a_park"
    /\ mutex' = NoThread
    /\ pc' = [pc EXCEPT ![p] = "a_parked"]
    /\ UNCHANGED <<qvars, semvars, msg, rv, call_commit, mvars, tvars, hvars,
                   gvars, created>>

\* --------------------------------------------------- queue_remove_condvar
queue_remove_condvar_cs(c) ==
    /\ pc[c] = "r_cs"
    /\ g_sync_mode = SYNC_MODE_CONDVAR
    /\ IF count = 0 /\ ~g_terminate_flag
       THEN /\ pc' = [pc EXCEPT ![c] = "r_park"]
            /\ UNCHANGED <<qvars, hvars, call_commit, mutex, rv, msg>>
       ELSE IF g_terminate_flag \/ count = 0
       THEN /\ mutex' = NoThread
            /\ pc' = [pc EXCEPT ![c] = "exit"]
            /\ rv' = [rv EXCEPT ![c] = 0 - 1]
            /\ UNCHANGED <<qvars, hvars, call_commit, msg>>
       ELSE /\ DequeueCommit(c)
            /\ mutex' = NoThread
            /\ pc' \in WakeOne([pc EXCEPT ![c] = "stat"], "a_parked", "a_lock")
            /\ UNCHANGED rv
    /\ UNCHANGED <<semvars, mvars, tvars, gvars, created>>

queue_remove_condvar_wait(c) ==
    /\ pc[c] = "r_park"
    /\ mutex' = NoThread
    /\ pc' = [pc EXCEPT ![c] = "r_parked"]
    /\ UNCHANGED <<qvars, semvars, msg, rv, call_commit, mvars, tvars, hvars,
                   gvars, created>>

\* a spurious wakeup from pthread_cond_wait
SpuriousWakeup(t) ==
    /\ pc[t] \in {"a_parked", "r_parked"}
    /\ pc' = [pc EXCEPT ![t] = IF pc[t] = "a_parked" THEN "a_lock" ELSE "r_lock"]
    /\ UNCHANGED <<qvars, mutex, semvars, msg, rv, call_commit, mvars, tvars,
                   hvars, gvars, created>>

\* ------------------------------------------------------------ main thread
RetPcs == {"ret_zero", "ret_noop", "ret_reject", "ret_nomem", "ret_cancel",
           "ret_ok"}

\* variant of SpawnProducer without the limit on the number of producers
SpawnProducer_noLimit ==
    /\ main_pc = "idle"
    /\ ~g_terminate_flag
    /\ producer_created_count' = producer_created_count + 1
    /\ pc' = [pc EXCEPT ![<<"P", producer_created_count + 1>>] = "top"]
    /\ rv' = [rv EXCEPT ![<<"P", producer_created_count + 1>>] = 0]
    /\ msg' = [msg EXCEPT ![<<"P", producer_created_count + 1>>] = Junk]
    /\ UNCHANGED <<qvars, mutex, semvars, call_commit, mvars,
                   consumer_created_count, queue_alive,
                   destroy_count, producer_active_count,
                   consumer_active_count, stop_requested, hvars, gvars, created>>

\* case 'p': pthread_create of the next producer slot
SpawnProducer ==
    /\ main_pc = "idle"
    /\ ~g_terminate_flag
    /\ producer_created_count < MAX_PRODUCERS
    /\ producer_created_count' = producer_created_count + 1
    /\ pc' = [pc EXCEPT ![<<"P", producer_created_count + 1>>] = "top"]
    /\ rv' = [rv EXCEPT ![<<"P", producer_created_count + 1>>] = 0]
    /\ msg' = [msg EXCEPT ![<<"P", producer_created_count + 1>>] = Junk]
    /\ UNCHANGED <<qvars, mutex, semvars, call_commit, mvars,
                   consumer_created_count, queue_alive,
                   destroy_count, producer_active_count,
                   consumer_active_count, stop_requested, hvars, gvars, created>>

\* case 'c': pthread_create of the next consumer slot
SpawnConsumer ==
    /\ main_pc = "idle"
    /\ ~g_terminate_flag
    /\ consumer_created_count < MAX_CONSUMERS
    /\ consumer_created_count' = consumer_created_count + 1
    /\ pc' = [pc EXCEPT ![<<"C", consumer_created_count + 1>>] = "top"]
    /\ rv' = [rv EXCEPT ![<<"C", consumer_created_count + 1>>] = 0]
    /\ msg' = [msg EXCEPT ![<<"C", consumer_created_count + 1>>] = Junk]
    /\ UNCHANGED <<qvars, mutex, semvars, call_commit, mvars,
                   producer_created_count, queue_alive,
                   destroy_count, producer_active_count,
                   consumer_active_count, stop_requested, hvars, gvars, created>>

\* case 'q'
QuitCommand ==
    /\ main_pc = "idle"
    /\ ~g_terminate_flag
    /\ g_terminate_flag' = TRUE
    /\ UNCHANGED <<g_sync_mode, h_msg, h_out, hash_ok, qvars, mutex, semvars, wvars, mvars, tvars,
                   hvars, created>>

\* main_signal_handler (SIGINT / SIGTERM), at any moment
main_signal_handler ==
    /\ ~g_terminate_flag
    /\ main_pc # "end"
    /\ g_terminate_flag' = TRUE
    /\ UNCHANGED <<g_sync_mode, h_msg, h_out, hash_ok, qvars, mutex, semvars, wvars, mvars, tvars,
                   hvars, created>>

\* case 'P': pthread_cancel of the last producer, then pthread_join
CancelLastProducer ==
    /\ main_pc = "idle"
    /\ ~g_terminate_flag
    /\ producer_created_count > 0
    /\ main_pc' = "x_joinp"
    /\ UNCHANGED <<qvars, mutex, semvars, wvars, change, remaining, m_rv,
                   loop_i, tvars, hvars, gvars, created>>
    /\ UNCHANGED <<snap, old_capacity>>

\* case 'C': pthread_cancel of the last consumer, then pthread_join
CancelLastConsumer ==
    /\ main_pc = "idle"
    /\ ~g_terminate_flag
    /\ consumer_created_count > 0
    /\ main_pc' = "x_joinc"
    /\ UNCHANGED <<qvars, mutex, semvars, wvars, change, remaining, m_rv,
                   loop_i, tvars, hvars, gvars, created>>
    /\ UNCHANGED <<snap, old_capacity>>

\* the thread with a pending cancellation request
CancelTarget ==
    IF main_pc = "x_joinp" THEN <<"P", producer_created_count>>
    ELSE IF main_pc = "x_joinc" THEN <<"C", consumer_created_count>>
    ELSE NoThread

\* variant of pthread_cancel_act in which the request reaches any worker,
\* not only the one in the last slot of the role
pthread_cancel_act_any(t) ==
    /\ main_pc \in {"x_joinp", "x_joinc"}
    /\ \/ /\ pc[t] \in {"top", "a_wait", "r_wait"}
          /\ pc' = [pc EXCEPT ![t] = "canceled"]
          /\ UNCHANGED mutex
       \/ /\ \/ pc[t] \in {"a_park", "r_park"}
             \/ /\ pc[t] \in {"a_cs", "r_cs"}
                /\ g_sync_mode = SYNC_MODE_CONDVAR
                /\ g_terminate_flag
          /\ pc' = [pc EXCEPT ![t] = "canceled"]
          /\ mutex' = DeadThread
       \/ /\ pc[t] \in {"a_parked", "r_parked"}
          /\ pc' = [pc EXCEPT ![t] = "x_relock"]
          /\ UNCHANGED mutex
       \/ /\ pc[t] = "x_relock"
          /\ mutex = NoThread
          /\ pc' = [pc EXCEPT ![t] = "canceled"]
          /\ mutex' = DeadThread
    /\ UNCHANGED <<qvars, semvars, msg, rv, call_commit, mvars, tvars, hvars,
                   gvars, created>>

\* the target acts on the request at a cancellation point: sem_wait,
\* printf / nanosleep of the thread function, print_info under the lock
\* (condvar strategy), pthread_cond_wait (which re-acquires the mutex first)
pthread_cancel_act(t) ==
    /\ t = CancelTarget
    /\ \/ /\ pc[t] \in {"top", "a_wait", "r_wait"}
          /\ pc' = [pc EXCEPT ![t] = "canceled"]
          /\ UNCHANGED mutex
       \/ /\ \/ pc[t] \in {"a_park", "r_park"}
             \/ /\ pc[t] \in {"a_cs", "r_cs"}
                /\ g_sync_mode = SYNC_MODE_CONDVAR
                /\ g_terminate_flag
          /\ pc' = [pc EXCEPT ![t] = "canceled"]
          /\ mutex' = DeadThread
       \/ /\ pc[t] \in {"a_parked", "r_parked"}
          /\ pc' = [pc EXCEPT ![t] = "x_relock"]
          /\ UNCHANGED mutex
       \/ /\ pc[t] = "x_relock"
          /\ mutex = NoThread
          /\ pc' = [pc EXCEPT ![t] = "canceled"]
          /\ mutex' = DeadThread
    /\ UNCHANGED <<qvars, semvars, msg, rv, call_commit, mvars, tvars, hvars,
                   gvars, created>>

\* pthread_join of the cancelled producer returns; the slot is free again
CancelLastProducer_join ==
    /\ main_pc = "x_joinp"
    /\ pc[CancelTarget] \in {"exit", "canceled"}
    /\ pc' = [pc EXCEPT ![CancelTarget] = "joined"]
    /\ producer_created_count' = producer_created_count - 1
    /\ main_pc' = "idle"
    /\ UNCHANGED <<qvars, mutex, semvars, msg, rv, call_commit, change,
                   remaining, m_rv, loop_i, consumer_created_count,
                   queue_alive,
                   destroy_count, producer_active_count,
                   consumer_active_count, stop_requested, hvars, gvars, created>>
    /\ UNCHANGED <<snap, old_capacity>>

CancelLastConsumer_join ==
    /\ main_pc = "x_joinc"
    /\ pc[CancelTarget] \in {"exit", "canceled"}
    /\ pc' = [pc EXCEPT ![CancelTarget] = "joined"]
    /\ consumer_created_count' = consumer_created_count - 1
    /\ main_pc' = "idle"
    /\ UNCHANGED <<qvars, mutex, semvars, msg, rv, call_commit, change,
                   remaining, m_rv, loop_i, producer_created_count,
                   queue_alive,
                   destroy_count, producer_active_count,
                   consumer_active_count, stop_requested, hvars, gvars, created>>
    /\ UNCHANGED <<snap, old_capacity>>

\* variant of queue_resize_call in which a zero change is a successful no-op
queue_resize_call_zero_ok(d) ==
    /\ main_pc = "idle"
    /\ ~g_terminate_flag
    /\ IF d = 0
       THEN /\ main_pc' = "ret_zero"
            /\ m_rv' = 0
            /\ UNCHANGED change
       ELSE /\ main_pc' = "z_lock"
            /\ change' = d
            /\ UNCHANGED m_rv
    /\ UNCHANGED <<qvars, mutex, semvars, wvars, remaining, loop_i, tvars,
                   hvars, gvars, created>>
    /\ UNCHANGED <<snap, old_capacity>>

\* queue_resize entry: change == 0 returns -1 at once, otherwise it goes on
\* to lock the mutex
queue_resize_call(d) ==
    /\ main_pc = "idle"
    /\ ~g_terminate_flag
    /\ IF d = 0
       THEN /\ main_pc' = "ret_zero"
            /\ m_rv' = 0 - 1
            /\ UNCHANGED change
       ELSE /\ main_pc' = "z_lock"
            /\ change' = d
            /\ UNCHANGED m_rv
    /\ UNCHANGED <<qvars, mutex, semvars, wvars, remaining, loop_i, tvars,
                   hvars, gvars, created>>
    /\ UNCHANGED <<snap, old_capacity>>

\* pthread_mutex_lock, then size_t old_capacity = q->capacity
queue_resize_lock ==
    /\ main_pc = "z_lock"
    /\ mutex = NoThread
    /\ mutex' = MainThread
    /\ main_pc' = "z_cs"
    /\ old_capacity' = capacity
    /\ UNCHANGED <<qvars, semvars, wvars, change, remaining, m_rv, loop_i,
                   tvars, hvars, gvars, created>>
    /\ UNCHANGED snap

\* variant of queue_resize_cs that forgets q->head_idx = 0
queue_resize_cs_keepHead ==
    /\ main_pc = "z_cs"
    /\ \E new_capacity \in NewCapacities(capacity, change) :
       IF ResizeNoop(new_capacity, capacity)
       THEN /\ mutex' = NoThread
            /\ main_pc' = "ret_noop"
            /\ m_rv' = 0
            /\ UNCHANGED <<qvars, semvars, pc, remaining, hvars>>
       ELSE IF ResizeRejected(new_capacity, count)
       THEN /\ mutex' = NoThread
            /\ main_pc' = "ret_reject"
            /\ m_rv' = 0 - 1
            /\ UNCHANGED <<qvars, semvars, pc, remaining, hvars>>
       ELSE /\ resize_wrapped' = (head_idx + count > capacity)
            /\ UNCHANGED <<enqSeq, deqSeq>>
            /\ messages' = Linearize(messages, head_idx, count, capacity,
                                     new_capacity)
            /\ capacity' = new_capacity
            /\ head_idx' = head_idx
            /\ tail_idx' = ResizeTail(count, new_capacity)
            /\ UNCHANGED <<count, added_count_total, extracted_count_total>>
            /\ IF g_sync_mode = SYNC_MODE_CONDVAR
               THEN /\ pc' = WakeAll(WakeAll(pc, "r_parked", "r_lock"),
                                     "a_parked", "a_lock")
                    /\ mutex' = NoThread
                    /\ main_pc' = "ret_ok"
                    /\ m_rv' = 0
                    /\ UNCHANGED <<semvars, remaining>>
               ELSE IF new_capacity > capacity
               THEN /\ empty_slots' = empty_slots + (new_capacity - capacity)
                    /\ mutex' = NoThread
                    /\ main_pc' = "ret_ok"
                    /\ m_rv' = 0
                    /\ UNCHANGED <<full_slots, pc, remaining>>
               ELSE /\ remaining' = capacity - new_capacity
                    /\ main_pc' = "z_reclaim"
                    /\ UNCHANGED <<semvars, pc, mutex, m_rv>>
    /\ UNCHANGED <<msg, rv, call_commit, change, loop_i, tvars, gvars, created>>
    /\ UNCHANGED <<snap, old_capacity>>

\* queue_resize under the lock, up to its first blocking point
queue_resize_cs ==
    /\ main_pc = "z_cs"
    /\ \E new_capacity \in NewCapacities(capacity, change) :
       IF ResizeNoop(new_capacity, capacity)
       THEN /\ mutex' = NoThread
            /\ main_pc' = "ret_noop"
            /\ m_rv' = 0
            /\ UNCHANGED <<qvars, semvars, pc, remaining, hvars>>
       ELSE IF ResizeRejected(new_capacity, count)
       THEN /\ mutex' = NoThread
            /\ main_pc' = "ret_reject"
            /\ m_rv' = 0 - 1
            /\ UNCHANGED <<qvars, semvars, pc, remaining, hvars>>
       ELSE /\ resize_wrapped' = (head_idx + count > capacity)
            /\ UNCHANGED <<enqSeq, deqSeq>>
            /\ messages' = Linearize(messages, head_idx, count, capacity,
                                     new_capacity)
            /\ capacity' = new_capacity
            /\ head_idx' = 0
            /\ tail_idx' = ResizeTail(count, new_capacity)
            /\ UNCHANGED <<count, added_count_total, extracted_count_total>>
            /\ IF g_sync_mode = SYNC_MODE_CONDVAR
               THEN /\ pc' = WakeAll(WakeAll(pc, "r_parked", "r_lock"),
                                     "a_parked", "a_lock")
                    /\ mutex' = NoThread
                    /\ main_pc' = "ret_ok"
                    /\ m_rv' = 0
                    /\ UNCHANGED <<semvars, remaining>>
               ELSE IF new_capacity > capacity
               THEN /\ empty_slots' = empty_slots + (new_capacity - capacity)
                    /\ mutex' = NoThread
                    /\ main_pc' = "ret_ok"
                    /\ m_rv' = 0
                    /\ UNCHANGED <<full_slots, pc, remaining>>
               ELSE /\ remaining' = capacity - new_capacity
                    /\ main_pc' = "z_reclaim"
                    /\ UNCHANGED <<semvars, pc, mutex, m_rv>>
    /\ UNCHANGED <<msg, rv, call_commit, change, loop_i, tvars, gvars, created>>
    /\ UNCHANGED <<snap, old_capacity>>

\* variant of queue_resize_nomem that returns without pthread_mutex_unlock
queue_resize_nomem_noUnlock ==
    /\ main_pc = "z_cs"
    /\ \E new_capacity \in NewCapacities(capacity, change) :
          /\ ~ResizeNoop(new_capacity, capacity)
          /\ ~ResizeRejected(new_capacity, count)
    /\ mutex' = mutex
    /\ main_pc' = "ret_nomem"
    /\ m_rv' = 0 - 1
    /\ UNCHANGED <<qvars, semvars, wvars, change, remaining, loop_i, tvars,
                   hvars, gvars, created>>
    /\ UNCHANGED <<snap, old_capacity>>

\* malloc of the new buffer fails
queue_resize_nomem ==
    /\ main_pc = "z_cs"
    /\ \E new_capacity \in NewCapacities(capacity, change) :
          /\ ~ResizeNoop(new_capacity, capacity)
          /\ ~ResizeRejected(new_capacity, count)
    /\ mutex' = NoThread
    /\ main_pc' = "ret_nomem"
    /\ m_rv' = 0 - 1
    /\ UNCHANGED <<qvars, semvars, wvars, change, remaining, loop_i, tvars,
                   hvars, gvars, created>>
    /\ UNCHANGED <<snap, old_capacity>>

\* shrink, semaphore strategy: one sem_wait(&q->empty_slots) of the reclaim
\* loop succeeds; after the last one the mutex is unlocked
queue_resize_reclaim ==
    /\ main_pc = "z_reclaim"
    /\ empty_slots > 0
    /\ empty_slots' = empty_slots - 1
    /\ remaining' = remaining - 1
    /\ IF remaining = 1
       THEN /\ mutex' = NoThread
            /\ main_pc' = "ret_ok"
            /\ m_rv' = 0
       ELSE UNCHANGED <<mutex, main_pc, m_rv>>
    /\ UNCHANGED <<qvars, full_slots, wvars, change, loop_i, tvars, hvars,
                   gvars, created, snap, old_capacity>>

\* the reclaim sem_wait, blocked because there is no permit, is interrupted
\* by a signal handler and returns -1 with EINTR
queue_resize_eintr ==
    /\ main_pc = "z_reclaim"
    /\ empty_slots = 0
    /\ IF g_terminate_flag
       THEN /\ mutex' = NoThread
            /\ main_pc' = "ret_cancel"
            /\ m_rv' = 0 - 1
            /\ remaining' = 0
       ELSE UNCHANGED <<mutex, main_pc, m_rv, remaining>>
    /\ UNCHANGED <<qvars, semvars, wvars, change, loop_i, tvars, hvars,
                   gvars, created>>
    /\ UNCHANGED <<snap, old_capacity>>

\* back in the command loop (the return value is not used by main)
queue_resize_return ==
    /\ main_pc \in RetPcs
    /\ main_pc' = "idle"
    /\ m_rv' = 0
    /\ change' = 0
    /\ resize_wrapped' = FALSE
    /\ old_capacity' = 0
    /\ UNCHANGED <<qvars, mutex, semvars, wvars, remaining, loop_i, tvars,
                   enqSeq, deqSeq, gvars, created>>
    /\ UNCHANGED snap

\* case 's': the status command.  Its four locals are filled by four getter
\* calls; every getter locks the mutex, copies one field and unlocks
StatusCommand ==
    /\ main_pc = "idle"
    /\ ~g_terminate_flag
    /\ main_pc' = "s_cap"
    /\ UNCHANGED <<qvars, mutex, semvars, wvars, change, remaining, m_rv,
                   loop_i, snap, old_capacity, tvars, hvars, gvars, created>>

\* size_t cap = queue_get_capacity(g_queue)
queue_get_capacity ==
    /\ main_pc = "s_cap"
    /\ mutex = NoThread
    /\ snap' = [snap EXCEPT !.cap = capacity]
    /\ UNCHANGED old_capacity
    /\ main_pc' = "s_count"
    /\ UNCHANGED <<qvars, mutex, semvars, wvars, change, remaining, m_rv,
                   loop_i, tvars, hvars, gvars, created>>

\* size_t count = queue_get_count(g_queue)
queue_get_count ==
    /\ main_pc = "s_count"
    /\ mutex = NoThread
    /\ snap' = [snap EXCEPT !.count = count]
    /\ UNCHANGED old_capacity
    /\ main_pc' = "s_added"
    /\ UNCHANGED <<qvars, mutex, semvars, wvars, change, remaining, m_rv,
                   loop_i, tvars, hvars, gvars, created>>

\* unsigned long added = queue_get_added_total(g_queue)
queue_get_added_total ==
    /\ main_pc = "s_added"
    /\ mutex = NoThread
    /\ snap' = [snap EXCEPT !.added = added_count_total]
    /\ UNCHANGED old_capacity
    /\ main_pc' = "s_extracted"
    /\ UNCHANGED <<qvars, mutex, semvars, wvars, change, remaining, m_rv,
                   loop_i, tvars, hvars, gvars, created>>

\* unsigned long extracted = queue_get_extracted_total(g_queue)
queue_get_extracted_total ==
    /\ main_pc = "s_extracted"
    /\ mutex = NoThread
    /\ snap' = [snap EXCEPT !.extracted = extracted_count_total]
    /\ UNCHANGED old_capacity
    /\ main_pc' = "s_print"
    /\ UNCHANGED <<qvars, mutex, semvars, wvars, change, remaining, m_rv,
                   loop_i, tvars, hvars, gvars, created>>

\* the printf block of case 's' shows the four locals, then the block ends
StatusPrint ==
    /\ main_pc = "s_print"
    /\ main_pc' = "idle"
    /\ snap' = NoSnap
    /\ UNCHANGED old_capacity
    /\ UNCHANGED <<qvars, mutex, semvars, wvars, change, remaining, m_rv,
                   loop_i, tvars, hvars, gvars, created>>

\* ------------------------------------------------------- cleanup_threads
\* the command loop ends; cleanup_threads sets the flag (again)
cleanup_threads_start ==
    /\ main_pc = "idle"
    /\ g_terminate_flag
    /\ main_pc' = "c_wake"
    /\ loop_i' = 0
    /\ UNCHANGED <<qvars, mutex, semvars, wvars, change, remaining, m_rv,
                   tvars, hvars, gvars, created>>
    /\ UNCHANGED <<snap, old_capacity>>

\* condvar strategy: pthread_mutex_trylock, then broadcast + unlock, or EBUSY
cleanup_threads_wake_condvar ==
    /\ main_pc = "c_wake"
    /\ g_sync_mode = SYNC_MODE_CONDVAR
    /\ IF queue_alive /\ mutex = NoThread
       THEN pc' = WakeAll(WakeAll(pc, "r_parked", "r_lock"),
                          "a_parked", "a_lock")
       ELSE UNCHANGED pc
    /\ main_pc' = "c_joinp"
    /\ UNCHANGED <<qvars, mutex, semvars, msg, rv, call_commit, change,
                   remaining, m_rv, loop_i, tvars, hvars, gvars, created>>
    /\ UNCHANGED <<snap, old_capacity>>

\* variant of cleanup_threads_wake_sem whose loop posts nothing
cleanup_threads_wake_sem_noPost ==
    /\ main_pc = "c_wake"
    /\ g_sync_mode = SYNC_MODE_SEM
    /\ IF queue_alive /\ loop_i < ShutdownPosts
       THEN /\ loop_i' = loop_i + 1
            /\ UNCHANGED <<main_pc, semvars>>
       ELSE /\ loop_i' = 0
            /\ main_pc' = "c_joinp"
            /\ UNCHANGED semvars
    /\ UNCHANGED <<qvars, mutex, wvars, change, remaining, m_rv, tvars, hvars,
                   gvars, created>>
    /\ UNCHANGED <<snap, old_capacity>>

\* semaphore strategy: one iteration of the posting loop
cleanup_threads_wake_sem ==
    /\ main_pc = "c_wake"
    /\ g_sync_mode = SYNC_MODE_SEM
    /\ IF queue_alive /\ loop_i < ShutdownPosts
       THEN /\ empty_slots' = empty_slots + 1
            /\ full_slots' = full_slots + 1
            /\ loop_i' = loop_i + 1
            /\ UNCHANGED main_pc
       ELSE /\ loop_i' = 0
            /\ main_pc' = "c_joinp"
            /\ UNCHANGED semvars
    /\ UNCHANGED <<qvars, mutex, wvars, change, remaining, m_rv, tvars, hvars,
                   gvars, created>>
    /\ UNCHANGED <<snap, old_capacity>>

\* pthread_join(producer_threads[i]) for i < producer_created_count
cleanup_threads_join_producers ==
    /\ main_pc = "c_joinp"
    /\ IF loop_i < producer_created_count
       THEN /\ pc[<<"P", loop_i + 1>>] = "exit"
            /\ pc' = [pc EXCEPT ![<<"P", loop_i + 1>>] = "joined"]
            /\ loop_i' = loop_i + 1
            /\ UNCHANGED <<main_pc, producer_created_count>>
       ELSE /\ producer_created_count' = 0
            /\ loop_i' = 0
            /\ main_pc' = "c_joinc"
            /\ UNCHANGED pc
    /\ UNCHANGED <<qvars, mutex, semvars, msg, rv, call_commit, change,
                   remaining, m_rv, consumer_created_count, queue_alive,
                   destroy_count, producer_active_count,
                   consumer_active_count, stop_requested, hvars,
                   gvars, created>>
    /\ UNCHANGED <<snap, old_capacity>>

\* variant of cleanup_threads_join_consumers that does not wait for the
\* thread to end
cleanup_threads_join_consumers_noWait ==
    /\ main_pc = "c_joinc"
    /\ IF loop_i < consumer_created_count
       THEN /\ loop_i' = loop_i + 1
            /\ UNCHANGED <<main_pc, consumer_created_count, pc>>
       ELSE /\ consumer_created_count' = 0
            /\ loop_i' = 0
            /\ main_pc' = "c_destroy"
            /\ UNCHANGED pc
    /\ UNCHANGED <<qvars, mutex, semvars, msg, rv, call_commit, change,
                   remaining, m_rv, producer_created_count, queue_alive,
                   destroy_count, producer_active_count,
                   consumer_active_count, stop_requested, hvars,
                   gvars, created>>
    /\ UNCHANGED <<snap, old_capacity>>

\* pthread_join(consumer_threads[i]) for i < consumer_created_count
cleanup_threads_join_consumers ==
    /\ main_pc = "c_joinc"
    /\ IF loop_i < consumer_created_count
       THEN /\ pc[<<"C", loop_i + 1>>] = "exit"
            /\ pc' = [pc EXCEPT ![<<"C", loop_i + 1>>] = "joined"]
            /\ loop_i' = loop_i + 1
            /\ UNCHANGED <<main_pc, consumer_created_count>>
       ELSE /\ consumer_created_count' = 0
            /\ loop_i' = 0
            /\ main_pc' = "c_destroy"
            /\ UNCHANGED pc
    /\ UNCHANGED <<qvars, mutex, semvars, msg, rv, call_commit, change,
                   remaining, m_rv, producer_created_count, queue_alive,
                   destroy_count, producer_active_count,
                   consumer_active_count, stop_requested, hvars,
                   gvars, created>>
    /\ UNCHANGED <<snap, old_capacity>>

\* variant of queue_destroy without the test of g_queue and without
\* g_queue = NULL
queue_destroy_noNull ==
    /\ main_pc = "c_destroy"
    /\ queue_alive' = FALSE
    /\ destroy_count' = IF destroy_count < 2 THEN destroy_count + 1 ELSE 2
    /\ main_pc' = "end"
    /\ UNCHANGED <<qvars, mutex, semvars, wvars, change, remaining, m_rv,
                   loop_i, producer_created_count, consumer_created_count,
                   producer_active_count, consumer_active_count,
                   stop_requested, hvars, gvars, created>>
    /\ UNCHANGED <<snap, old_capacity>>

\* if (g_queue) { queue_destroy(g_queue, g_sync_mode); g_queue = NULL; }
\* queue_destroy destroys the primitives, frees the buffer and the queue
queue_destroy ==
    /\ main_pc = "c_destroy"
    /\ IF queue_alive
       THEN /\ queue_alive' = FALSE
            /\ destroy_count' = destroy_count + 1
       ELSE UNCHANGED <<queue_alive, destroy_count>>
    /\ main_pc' = "end"
    /\ UNCHANGED <<qvars, mutex, semvars, wvars, change, remaining, m_rv,
                   loop_i, producer_created_count, consumer_created_count,
                   producer_active_count, consumer_active_count,
                   stop_requested, hvars, gvars, created>>
    /\ UNCHANGED <<snap, old_capacity>>

\* cleanup_threads entered once more after it has completed
cleanup_threads_again ==
    /\ main_pc = "end"
    /\ g_terminate_flag' = TRUE
    /\ main_pc' = "c_wake"
    /\ loop_i' = 0
    /\ UNCHANGED <<g_sync_mode, h_msg, h_out, hash_ok, qvars, mutex, semvars, wvars, change,
                   remaining, m_rv, snap, old_capacity, tvars, hvars,
                   created>>

\* ------------------------------------------- main, the stop-adding variant
\* case 'p' of the variant: the limit is tested on producer_active_count,
\* the handle is stored in producer_threads[producer_created_count]; once
\* producer_created_count has reached MAX_PRODUCERS that store lies past the
\* end of the array and the behaviour is undefined ("ub")
SpawnProducerActive ==
    /\ main_pc = "idle"
    /\ ~g_terminate_flag
    /\ producer_active_count < MAX_PRODUCERS
    /\ IF producer_created_count < MAX_PRODUCERS
       THEN /\ pc' = [pc EXCEPT ![<<"P", producer_created_count + 1>>] = "top"]
            /\ rv' = [rv EXCEPT ![<<"P", producer_created_count + 1>>] = 0]
            /\ msg' = [msg EXCEPT
                            ![<<"P", producer_created_count + 1>>] = Junk]
            /\ UNCHANGED main_pc
       ELSE /\ main_pc' = "ub"
            /\ UNCHANGED <<pc, rv, msg>>
    /\ producer_created_count' = producer_created_count + 1
    /\ producer_active_count' = producer_active_count + 1
    /\ UNCHANGED <<qvars, mutex, semvars, call_commit, change, remaining,
                   m_rv, loop_i, snap, old_capacity, consumer_created_count,
                   queue_alive,
                   destroy_count, consumer_active_count, stop_requested,
                   hvars, gvars, created>>

\* case 'c' of the variant
SpawnConsumerActive ==
    /\ main_pc = "idle"
    /\ ~g_terminate_flag
    /\ consumer_active_count < MAX_CONSUMERS
    /\ IF consumer_created_count < MAX_CONSUMERS
       THEN /\ pc' = [pc EXCEPT ![<<"C", consumer_created_count + 1>>] = "top"]
            /\ rv' = [rv EXCEPT ![<<"C", consumer_created_count + 1>>] = 0]
            /\ msg' = [msg EXCEPT
                            ![<<"C", consumer_created_count + 1>>] = Junk]
            /\ UNCHANGED main_pc
       ELSE /\ main_pc' = "ub"
            /\ UNCHANGED <<pc, rv, msg>>
    /\ consumer_created_count' = consumer_created_count + 1
    /\ consumer_active_count' = consumer_active_count + 1
    /\ UNCHANGED <<qvars, mutex, semvars, call_commit, change, remaining,
                   m_rv, loop_i, snap, old_capacity, producer_created_count,
                   queue_alive,
                   destroy_count, producer_active_count, stop_requested,
                   hvars, gvars, created>>

\* case 'P' of the variant: producer_active_count--, nothing else
StopAddingProducer ==
    /\ main_pc = "idle"
    /\ ~g_terminate_flag
    /\ producer_active_count > 0
    /\ producer_active_count' = producer_active_count - 1
    /\ stop_requested' = [stop_requested EXCEPT !["P"] = TRUE]
    /\ UNCHANGED <<qvars, mutex, semvars, wvars, mvars,
                   producer_created_count, consumer_created_count,
                   queue_alive, destroy_count, consumer_active_count, hvars,
                   gvars, created>>

\* case 'C' of the variant: consumer_active_count--, nothing else
StopAddingConsumer ==
    /\ main_pc = "idle"
    /\ ~g_terminate_flag
    /\ consumer_active_count > 0
    /\ consumer_active_count' = consumer_active_count - 1
    /\ stop_requested' = [stop_requested EXCEPT !["C"] = TRUE]
    /\ UNCHANGED <<qvars, mutex, semvars, wvars, mvars,
                   producer_created_count, consumer_created_count,
                   queue_alive, destroy_count, producer_active_count, hvars,
                   gvars, created>>

\* ------------------------------------------------------------------ Next
Next ==
    \/ \E p \in Producers : producer_thread_func(p)
    \/ \E c \in Consumers : consumer_thread_func(c)
    \/ \E t \in Workers : queue_get_total(t)
    \/ \E p \in Producers : queue_add_sem_wait(p)
    \/ \E p \in Producers : queue_add_sem_eintr(p)
    \/ \E p \in Producers : queue_add_sem_check(p)
    \/ \E p \in Producers : queue_add_lock(p)
    \/ \E p \in Producers : queue_add_sem_cs(p)
    \/ \E p \in Producers : queue_add_sem_post(p)
    \/ \E c \in Consumers : queue_remove_sem_wait(c)
    \/ \E c \in Consumers : queue_remove_sem_eintr(c)
    \/ \E c \in Consumers : queue_remove_sem_check(c)
    \/ \E c \in Consumers : queue_remove_lock(c)
    \/ \E c \in Consumers : queue_remove_sem_cs(c)
    \/ \E c \in Consumers : queue_remove_sem_post(c)
    \/ \E p \in Producers : queue_add_condvar_cs(p)
    \/ \E p \in Producers : queue_add_condvar_wait(p)
    \/ \E c \in Consumers : queue_remove_condvar_cs(c)
    \/ \E c \in Consumers : queue_remove_condvar_wait(c)
    \/ \E t \in Workers : SpuriousWakeup(t)
    \/ SpawnProducer
    \/ SpawnConsumer
    \/ CancelLastProducer
    \/ CancelLastConsumer
    \/ \E t \in Workers : pthread_cancel_act(t)
    \/ CancelLastProducer_join
    \/ CancelLastConsumer_join
    \/ QuitCommand
    \/ main_signal_handler
    \/ \E d \in Deltas : queue_resize_call(d)
    \/ queue_resize_lock
    \/ queue_resize_cs
    \/ queue_resize_nomem
    \/ queue_resize_reclaim
    \/ queue_resize_eintr
    \/ queue_resize_return
    \/ cleanup_threads_start
    \/ cleanup_threads_wake_condvar
    \/ cleanup_threads_wake_sem
    \/ cleanup_threads_join_producers
    \/ cleanup_threads_join_consumers
    \/ queue_destroy

Spec == Init /\ [][Next]_vars

\* -------------------------------------------------------------- scheduling
\* the steps a running producer thread takes by itself; an interrupted
\* sem_wait and a spurious wakeup are events, not steps the thread is owed
ProducerStep(p) ==
    \/ producer_thread_func(p)
    \/ queue_get_total(p)
    \/ queue_add_sem_wait(p)
    \/ queue_add_sem_check(p)
    \/ queue_add_lock(p)
    \/ queue_add_sem_cs(p)
    \/ queue_add_sem_post(p)
    \/ queue_add_condvar_cs(p)
    \/ queue_add_condvar_wait(p)
    \/ pthread_cancel_act(p)

\* the steps a running consumer thread takes by itself
ConsumerStep(c) ==
    \/ consumer_thread_func(c)
    \/ queue_get_total(c)
    \/ queue_remove_sem_wait(c)
    \/ queue_remove_sem_check(c)
    \/ queue_remove_lock(c)
    \/ queue_remove_sem_cs(c)
    \/ queue_remove_sem_post(c)
    \/ queue_remove_condvar_cs(c)
    \/ queue_remove_condvar_wait(c)
    \/ pthread_cancel_act(c)

\* the steps the main thread takes without a new command: the rest of a
\* command in progress, leaving the loop once the flag is set, the cleanup
MainStep ==
    \/ CancelLastProducer_join
    \/ CancelLastConsumer_join
    \/ queue_resize_lock
    \/ queue_resize_cs
    \/ queue_resize_reclaim
    \/ queue_resize_return
    \/ cleanup_threads_start
    \/ cleanup_threads_wake_condvar
    \/ cleanup_threads_wake_sem
    \/ cleanup_threads_join_producers
    \/ cleanup_threads_join_consumers
    \/ queue_destroy

\* every thread that can run keeps running
Fairness ==
    /\ \A p \in Producers : WF_vars(ProducerStep(p))
    /\ \A c \in Consumers : WF_vars(ConsumerStep(c))
    /\ WF_vars(MainStep)

FairSpec == Init /\ [][Next]_vars /\ Fairness

\* a pending cancellation request is acted upon: every iteration of a thread
\* function passes nanosleep and the console output, which are cancellation
\* points, so a target that keeps running cannot keep missing the request
\* a run without termination and without CancelLast: threads are spawned,
\* produce, consume, and the queue is resized
NextRun ==
    \/ \E p \in Producers : producer_thread_func(p)
    \/ \E c \in Consumers : consumer_thread_func(c)
    \/ \E t \in Workers : queue_get_total(t)
    \/ \E p \in Producers : queue_add_sem_wait(p)
    \/ \E p \in Producers : queue_add_sem_check(p)
    \/ \E p \in Producers : queue_add_lock(p)
    \/ \E p \in Producers : queue_add_sem_cs(p)
    \/ \E p \in Producers : queue_add_sem_post(p)
    \/ \E c \in Consumers : queue_remove_sem_wait(c)
    \/ \E c \in Consumers : queue_remove_sem_check(c)
    \/ \E c \in Consumers : queue_remove_lock(c)
    \/ \E c \in Consumers : queue_remove_sem_cs(c)
    \/ \E c \in Consumers : queue_remove_sem_post(c)
    \/ \E p \in Producers : queue_add_condvar_cs(p)
    \/ \E p \in Producers : queue_add_condvar_wait(p)
    \/ \E c \in Consumers : queue_remove_condvar_cs(c)
    \/ \E c \in Consumers : queue_remove_condvar_wait(c)
    \/ \E t \in Workers : SpuriousWakeup(t)
    \/ SpawnProducer
    \/ SpawnConsumer
    \/ \E d \in Deltas : queue_resize_call(d)
    \/ queue_resize_lock
    \/ queue_resize_cs
    \/ queue_resize_nomem
    \/ queue_resize_reclaim
    \/ queue_resize_return

\* a thread that can run again and again does run: a mutex or a semaphore
\* that keeps becoming free is eventually obtained by each waiter
StrongFairness ==
    /\ \A p \in Producers : SF_vars(ProducerStep(p))
    /\ \A c \in Consumers : SF_vars(ConsumerStep(c))
    /\ SF_vars(MainStep)

FairRun == Init /\ [][NextRun]_vars /\ StrongFairness

\* a pending cancellation request is acted upon: every iteration of a thread
\* function passes nanosleep and the console output, which are cancellation
\* points, so a target that keeps running cannot keep missing the request
CancelFairness == \A t \in Workers : SF_vars(pthread_cancel_act(t))

\* the whole program, no thread starved of the lock, requests acted upon
FairCancel == Init /\ [][Next]_vars /\ StrongFairness /\ CancelFairness

\* ------------------------------------------------- queue_create / resize
\* queue_create with any requested capacity
InitCreate ==
    /\ \E req \in Requests : InitWith(req)
    /\ h_msg = NoMessage
    /\ h_out = 0 - 1

\* a producer fills the queue while queue_resize is called with any int
NextCap ==
    \/ SpawnProducer
    \/ \E p \in Producers : producer_thread_func(p)
    \/ \E p \in Producers : queue_get_total(p)
    \/ \E p \in Producers : queue_add_sem_wait(p)
    \/ \E p \in Producers : queue_add_sem_check(p)
    \/ \E p \in Producers : queue_add_lock(p)
    \/ \E p \in Producers : queue_add_sem_cs(p)
    \/ \E p \in Producers : queue_add_sem_post(p)
    \/ \E p \in Producers : queue_add_condvar_cs(p)
    \/ \E p \in Producers : queue_add_condvar_wait(p)
    \/ \E d \in IntRange : queue_resize_call(d)
    \/ queue_resize_lock
    \/ queue_resize_cs
    \/ queue_resize_nomem
    \/ queue_resize_reclaim
    \/ queue_resize_return

SpecCap == InitCreate /\ [][NextCap]_vars

\* a run with the status command: threads are spawned, produce and consume,
\* the queue is resized, and main asks for the statistics
NextStat ==
    \/ NextRun
    \/ StatusCommand
    \/ queue_get_capacity
    \/ queue_get_count
    \/ queue_get_added_total
    \/ queue_get_extracted_total
    \/ StatusPrint

SpecStat == Init /\ [][NextStat]_vars

\* the whole program, with cleanup_threads able to run more than once
NextTwice ==
    \/ Next
    \/ cleanup_threads_again

SpecTwice == Init /\ [][NextTwice]_vars

\* a run of the stop-adding variant of main: threads are spawned, produce
\* and consume, adding is stopped, the queue is resized
NextStop ==
    \/ \E p \in Producers : producer_thread_func(p)
    \/ \E c \in Consumers : consumer_thread_func(c)
    \/ \E t \in Workers : queue_get_total(t)
    \/ \E p \in Producers : queue_add_sem_wait(p)
    \/ \E p \in Producers : queue_add_sem_check(p)
    \/ \E p \in Producers : queue_add_lock(p)
    \/ \E p \in Producers : queue_add_sem_cs(p)
    \/ \E p \in Producers : queue_add_sem_post(p)
    \/ \E c \in Consumers : queue_remove_sem_wait(c)
    \/ \E c \in Consumers : queue_remove_sem_check(c)
    \/ \E c \in Consumers : queue_remove_lock(c)
    \/ \E c \in Consumers : queue_remove_sem_cs(c)
    \/ \E c \in Consumers : queue_remove_sem_post(c)
    \/ \E p \in Producers : queue_add_condvar_cs(p)
    \/ \E p \in Producers : queue_add_condvar_wait(p)
    \/ \E c \in Consumers : queue_remove_condvar_cs(c)
    \/ \E c \in Consumers : queue_remove_condvar_wait(c)
    \/ SpawnProducerActive
    \/ SpawnConsumerActive
    \/ StopAddingProducer
    \/ StopAddingConsumer
    \/ \E d \in Deltas : queue_resize_call(d)
    \/ queue_resize_lock
    \/ queue_resize_cs
    \/ queue_resize_reclaim
    \/ queue_resize_return

SpecStop == Init /\ [][NextStop]_vars

\* ------------------------------------------------ calculate_message_hash
\* any message, its hash not yet calculated
InitHash ==
    /\ InitWith(INITIAL_QUEUE_CAPACITY)
    /\ h_msg \in Messages
    /\ h_out = 0 - 1

\* the call calculate_message_hash(&msg)
HashCall ==
    /\ h_out = 0 - 1
    /\ h_out' = calculate_message_hash(h_msg)
    /\ UNCHANGED <<g_sync_mode, g_terminate_flag, h_msg, hash_ok, qvars, mutex,
                   semvars, wvars, mvars, tvars, hvars, created>>

NextHash == HashCall

SpecHash == InitHash /\ [][NextHash]_vars

\* ------------------------------------------------ messages and their hash
\* a run in which the messages are message_t records: producers build them
\* and calculate the hash, consumers verify it, the queue is resized
NextMsg ==
    \/ \E p \in Producers : producer_create_message(p)
    \/ \E c \in Consumers : consumer_thread_func(c)
    \/ \E p \in Producers : queue_get_total(p)
    \/ \E c \in Consumers : consumer_verify_hash(c)
    \/ \E p \in Producers : queue_add_sem_wait(p)
    \/ \E p \in Producers : queue_add_sem_check(p)
    \/ \E p \in Producers : queue_add_lock(p)
    \/ \E p \in Producers : queue_add_sem_cs(p)
    \/ \E p \in Producers : queue_add_sem_post(p)
    \/ \E c \in Consumers : queue_remove_sem_wait(c)
    \/ \E c \in Consumers : queue_remove_sem_check(c)
    \/ \E c \in Consumers : queue_remove_lock(c)
    \/ \E c \in Consumers : queue_remove_sem_cs(c)
    \/ \E c \in Consumers : queue_remove_sem_post(c)
    \/ \E p \in Producers : queue_add_condvar_cs(p)
    \/ \E p \in Producers : queue_add_condvar_wait(p)
    \/ \E c \in Consumers : queue_remove_condvar_cs(c)
    \/ \E c \in Consumers : queue_remove_condvar_wait(c)
    \/ \E t \in Workers : SpuriousWakeup(t)
    \/ SpawnProducer
    \/ SpawnConsumer
    \/ \E d \in Deltas : queue_resize_call(d)
    \/ queue_resize_lock
    \/ queue_resize_cs
    \/ queue_resize_reclaim
    \/ queue_resize_return

SpecMsg == Init /\ [][NextMsg]_vars

\* ------------------------------------- queue_resize, the realloc variant
\* first translation unit of queue_manager.c (lines 291-378): the target
\* capacity for a non-zero change
ReallocCapacity(current_capacity, chg) ==
    IF chg > 0
    THEN IF current_capacity + chg > MAX_QUEUE_CAPACITY
         THEN MAX_QUEUE_CAPACITY ELSE current_capacity + chg
    ELSE LET n == IF (0 - chg) >= current_capacity
                  THEN MIN_QUEUE_CAPACITY ELSE current_capacity - (0 - chg)
         IN  IF n < MIN_QUEUE_CAPACITY THEN MIN_QUEUE_CAPACITY ELSE n

\* realloc(q->messages, new_capacity * sizeof(message_t)): the records keep
\* their indices up to the smaller of the two sizes; the added part is
\* uninitialized memory and may hold anything
ReallocBuffers(buf, oldcap, newcap) ==
    {[i \in 0..(newcap - 1) |-> IF i < oldcap THEN buf[i] ELSE fresh[i]] :
        fresh \in [0..(newcap - 1) -> 0..MaxMsgs]}

\* queue_resize of the realloc variant under the lock, up to its first
\* blocking point: no-op and rejection tests, realloc (which may fail),
\* q->capacity, head_idx %= capacity, tail_idx %= capacity, then the
\* semaphores or the broadcasts
queue_resize_realloc ==
    /\ main_pc = "z_cs"
    /\ LET new_capacity == ReallocCapacity(capacity, change)
       IN  IF new_capacity = capacity
           THEN /\ mutex' = NoThread
                /\ main_pc' = "ret_noop"
                /\ m_rv' = 0
                /\ UNCHANGED <<qvars, semvars, pc, remaining, hvars>>
           ELSE IF new_capacity < capacity /\ new_capacity < count
           THEN /\ mutex' = NoThread
                /\ main_pc' = "ret_reject"
                /\ m_rv' = 0 - 1
                /\ UNCHANGED <<qvars, semvars, pc, remaining, hvars>>
           ELSE \/ /\ mutex' = NoThread
                   /\ main_pc' = "ret_nomem"
                   /\ m_rv' = 0 - 1
                   /\ UNCHANGED <<qvars, semvars, pc, remaining, hvars>>
                \/ /\ resize_wrapped' = (head_idx + count > capacity)
                   /\ UNCHANGED <<enqSeq, deqSeq>>
                   /\ messages' \in ReallocBuffers(messages, capacity,
                                                   new_capacity)
                   /\ capacity' = new_capacity
                   /\ head_idx' = head_idx % new_capacity
                   /\ tail_idx' = tail_idx % new_capacity
                   /\ UNCHANGED <<count, added_count_total,
                                  extracted_count_total>>
                   /\ IF g_sync_mode = SYNC_MODE_CONDVAR
                      THEN /\ pc' = WakeAll(WakeAll(pc, "r_parked", "r_lock"),
                                            "a_parked", "a_lock")
                           /\ mutex' = NoThread
                           /\ main_pc' = "ret_ok"
                           /\ m_rv' = 0
                           /\ UNCHANGED <<semvars, remaining>>
                      ELSE IF new_capacity > capacity
                      THEN /\ empty_slots' =
                                  empty_slots + (new_capacity - capacity)
                           /\ mutex' = NoThread
                           /\ main_pc' = "ret_ok"
                           /\ m_rv' = 0
                           /\ UNCHANGED <<full_slots, pc, remaining>>
                      ELSE /\ remaining' = capacity - new_capacity
                           /\ main_pc' = "z_reclaim"
                           /\ UNCHANGED <<semvars, pc, mutex, m_rv>>
    /\ UNCHANGED <<msg, rv, call_commit, change, loop_i, tvars, gvars, created>>
    /\ UNCHANGED <<snap, old_capacity>>

\* a run of the realloc variant without termination and without CancelLast
NextRealloc ==
    \/ \E p \in Producers : producer_thread_func(p)
    \/ \E c \in Consumers : consumer_thread_func(c)
    \/ \E t \in Workers : queue_get_total(t)
    \/ \E p \in Producers : queue_add_sem_wait(p)
    \/ \E p \in Producers : queue_add_sem_check(p)
    \/ \E p \in Producers : queue_add_lock(p)
    \/ \E p \in Producers : queue_add_sem_cs(p)
    \/ \E p \in Producers : queue_add_sem_post(p)
    \/ \E c \in Consumers : queue_remove_sem_wait(c)
    \/ \E c \in Consumers : queue_remove_sem_check(c)
    \/ \E c \in Consumers : queue_remove_lock(c)
    \/ \E c \in Consumers : queue_remove_sem_cs(c)
    \/ \E c \in Consumers : queue_remove_sem_post(c)
    \/ \E p \in Producers : queue_add_condvar_cs(p)
    \/ \E p \in Producers : queue_add_condvar_wait(p)
    \/ \E c \in Consumers : queue_remove_condvar_cs(c)
    \/ \E c \in Consumers : queue_remove_condvar_wait(c)
    \/ \E t \in Workers : SpuriousWakeup(t)
    \/ SpawnProducer
    \/ SpawnConsumer
    \/ \E d \in Deltas : queue_resize_call(d)
    \/ queue_resize_lock
    \/ queue_resize_realloc
    \/ queue_resize_reclaim
    \/ queue_resize_return

SpecRealloc == Init /\ [][NextRealloc]_vars

\* ================================================================ claims
IsPrefix(s, t) ==
    /\ Len(s) <= Len(t)
    /\ \A i \in 1..Len(s) : s[i] = t[i]

\* the target capacity as the specification words it: old + delta, clamped
ClampedTarget(old, chg) ==
    IF old + chg < MIN_QUEUE_CAPACITY THEN MIN_QUEUE_CAPACITY
    ELSE IF old + chg > MAX_QUEUE_CAPACITY THEN MAX_QUEUE_CAPACITY
    ELSE old + chg

\* a non-zero delta that clamps to the current capacity
AtLimit ==
    \/ change > 0 /\ capacity = MAX_QUEUE_CAPACITY
    \/ change < 0 /\ capacity = MIN_QUEUE_CAPACITY

\* C1: whenever no thread is inside the locked section, 0 <= count <=
\* capacity and addedTotal - extractedTotal = count, for every interleaving
\* of enqueue, dequeue, resize, CancelLast and shutdown, in both strategies.
Inv_C1 ==
    mutex \in {NoThread, DeadThread} =>
        /\ 0 <= count
        /\ count <= capacity
        /\ added_count_total - extracted_count_total = count

Wit_C1 ==
    /\ mutex = NoThread
    /\ capacity # CreateCapacity(INITIAL_QUEUE_CAPACITY)
    /\ count = capacity
    /\ extracted_count_total >= 1
    /\ added_count_total >= 2

Inv_C11 ==
    /\ MIN_QUEUE_CAPACITY <= capacity
    /\ capacity <= MAX_QUEUE_CAPACITY
    /\ DOMAIN messages = 0..(capacity - 1)

\* a shrink by more than the capacity has been carried out
Wit_C11 ==
    /\ main_pc = "ret_ok"
    /\ change < 0 - MAX_QUEUE_CAPACITY
    /\ capacity = MIN_QUEUE_CAPACITY
    /\ count = 1

\* main is past the wake-up part of cleanup_threads
ShutdownSignalled == main_pc \in {"c_joinp", "c_joinc", "c_destroy", "end"}

Orig_C4 ==
    \A t \in Workers :
        (/\ g_sync_mode = SYNC_MODE_CONDVAR
         /\ ShutdownSignalled
         /\ mutex # DeadThread
         /\ pc[t] \in {"a_park", "a_parked", "r_park", "r_parked"})
        ~> (pc[t] \in {"exit", "joined"} /\ rv[t] = 0 - 1)

\* C5: a queue_add / queue_remove call that returns -1 has not committed
\* anything, and the step that returns -1 leaves count, head, tail, the
\* totals and the buffer as they are.
Thm_C5 ==
    [][\A t \in Workers :
          (pc[t] # "exit" /\ pc'[t] = "exit" /\ rv'[t] = 0 - 1) =>
              /\ ~call_commit[t]
              /\ UNCHANGED <<messages, count, head_idx, tail_idx,
                             added_count_total, extracted_count_total>>]_vars

Wit_C5 ==
    \E t \in Workers : pc[t] = "exit" /\ rv[t] = 0 - 1 /\ count > 0

\* a queue_add that has been called and has not committed or returned
EnqPending(p) == pc[p] \in {"a_wait", "a_chk", "a_lock", "a_cs", "a_park", "a_parked"}

\* a queue_remove that has been called and has not committed or returned
DeqPending(c) == pc[c] \in {"r_wait", "r_chk", "r_lock", "r_cs", "r_park", "r_parked"}

\* C6 as stated: without termination and CancelLast, under fair scheduling:
\* an enqueue commits only when count < capacity; while an enqueue is
\* pending and there is a free slot, some enqueue eventually commits (or the
\* queue is full again); while a dequeue is pending and the queue holds a
\* record, some dequeue eventually commits.
Orig_C6 ==
    /\ [][added_count_total' # added_count_total => count < capacity]_vars
    /\ \A n \in 0..MaxMsgs :
          (/\ \E p \in Producers : EnqPending(p)
           /\ count < capacity
           /\ added_count_total = n)
          ~> (added_count_total > n \/ count = capacity)
    /\ \A n \in 0..MaxMsgs :
          (/\ \E c \in Consumers : DeqPending(c)
           /\ count > 0
           /\ extracted_count_total = n)
          ~> (extracted_count_total > n)

\* C7: a shrink whose clamped target is below the current count returns -1
\* and leaves capacity, count, head, tail, the buffer and both semaphores
\* unchanged.
Thm_C7 ==
    [][(/\ main_pc = "z_cs"
        /\ main_pc' # "z_cs"
        /\ change < 0
        /\ ClampedTarget(capacity, change) < count) =>
            /\ main_pc' = "ret_reject"
            /\ m_rv' = 0 - 1
            /\ UNCHANGED <<messages, capacity, count, head_idx, tail_idx,
                           empty_slots, full_slots>>]_vars

Wit_C7 == main_pc = "ret_reject" /\ m_rv = 0 - 1 /\ count >= 2

\* C8: the live records are always the enqueued records not yet dequeued,
\* in enqueue order, and a resize that changes the capacity leaves that
\* logical sequence as it was - also when the ring was wrapped.
Thm_C8 ==
    /\ [](enqSeq = deqSeq \o Contents)
    /\ [][capacity' # capacity => Contents' = Contents]_vars

Wit_C8 == main_pc = "ret_ok" /\ resize_wrapped /\ count >= 2

\* C9: Resize(0) and a non-zero delta that clamps to the current capacity
\* leave count, capacity, head, tail, the buffer and the semaphores
\* unchanged and do not enter the semaphore reclaim wait.
Thm_C9 ==
    [][/\ (main_pc = "idle" /\ main_pc' = "ret_zero") =>
              UNCHANGED <<messages, capacity, count, head_idx, tail_idx,
                          empty_slots, full_slots, mutex>>
       /\ (main_pc = "z_cs" /\ main_pc' # "z_cs" /\ AtLimit) =>
              /\ main_pc' = "ret_noop"
              /\ UNCHANGED <<messages, capacity, count, head_idx, tail_idx,
                             empty_slots, full_slots>>]_vars

Wit_C9 == main_pc = "ret_noop" /\ head_idx > 0 /\ count > 0

\* C10 as stated: every resize whose new capacity equals the current one,
\* Resize(0) included, returns 0.
Orig_C10 == main_pc \in {"ret_zero", "ret_noop"} => m_rv = 0

\* C10 amended: a non-zero delta that clamps to the current capacity
\* returns 0; a zero delta returns -1.
Thm_C10 ==
    [][/\ (main_pc = "z_cs" /\ main_pc' # "z_cs" /\ AtLimit) => m_rv' = 0
       /\ (main_pc = "idle" /\ main_pc' = "ret_zero") => m_rv' = 0 - 1]_vars

Wit_C10 ==
    /\ main_pc = "ret_noop"
    /\ change < 0
    /\ capacity = MIN_QUEUE_CAPACITY
    /\ m_rv = 0

\* C12: the four values shown by one status command (capacity, count, added
\* total, extracted total) are one point-in-time view of the queue:
\* added - extracted = count and count <= capacity.
Orig_C12 ==
    main_pc = "s_print" =>
        /\ snap.added - snap.extracted = snap.count
        /\ snap.count <= snap.cap

\* the workers of a role that occupy slots 1..n
ActiveWorkers(role, n) == {<<role, i>> : i \in 1..n}

\* a worker that a cancellation request has reached, or that has been joined
Cancelled(t) == pc[t] \in {"x_relock", "canceled", "joined"}

Orig_C14 ==
    (main_pc \in {"x_joinp", "x_joinc"}) ~> (main_pc \notin {"x_joinp", "x_joinc"})

\* a slot whose thread does not exist: never created, or joined
NoThreadIn(t) == pc[t] \in {"none", "joined"}

\* C15: for each role the number of active workers never exceeds the role's
\* maximum; a step that starts a thread starts exactly one, in slot
\* (previous count + 1) of its role, only below the maximum, and raises that
\* role's count by one; at the maximum no thread is created and no count
\* grows.
Thm_C15 ==
    [][/\ producer_created_count' <= MAX_PRODUCERS
       /\ consumer_created_count' <= MAX_CONSUMERS
       /\ \A t \in Producers :
            (NoThreadIn(t) /\ ~NoThreadIn(t)') =>
                /\ producer_created_count < MAX_PRODUCERS
                /\ t = <<"P", producer_created_count + 1>>
                /\ pc'[t] = "top"
                /\ \A u \in Workers \ {t} : pc'[u] = pc[u]
       /\ \A t \in Consumers :
            (NoThreadIn(t) /\ ~NoThreadIn(t)') =>
                /\ consumer_created_count < MAX_CONSUMERS
                /\ t = <<"C", consumer_created_count + 1>>
                /\ pc'[t] = "top"
                /\ \A u \in Workers \ {t} : pc'[u] = pc[u]
       /\ producer_created_count' > producer_created_count =>
            /\ producer_created_count' = producer_created_count + 1
            /\ NoThreadIn(<<"P", producer_created_count + 1>>)
            /\ pc'[<<"P", producer_created_count + 1>>] = "top"
            /\ consumer_created_count' = consumer_created_count
       /\ consumer_created_count' > consumer_created_count =>
            /\ consumer_created_count' = consumer_created_count + 1
            /\ NoThreadIn(<<"C", consumer_created_count + 1>>)
            /\ pc'[<<"C", consumer_created_count + 1>>] = "top"
            /\ producer_created_count' = producer_created_count
       /\ \A t \in Producers : t[2] > producer_created_count' => NoThreadIn(t)'
       /\ \A t \in Consumers : t[2] > consumer_created_count' => NoThreadIn(t)'
      ]_vars

\* both roles are at their maximum, the last slots were freed by CancelLast
\* and filled again by a later spawn
Wit_C15 ==
    /\ main_pc = "idle"
    /\ ~g_terminate_flag
    /\ producer_created_count = MAX_PRODUCERS
    /\ consumer_created_count = MAX_CONSUMERS
    /\ \A t \in Workers : ~NoThreadIn(t)
    /\ mutex = DeadThread

\* C16: the queue is destroyed only after the termination flag has been
\* set, the wake-up step of cleanup_threads has run and every worker that
\* was spawned and not joined by CancelLast has been joined; once the queue
\* is destroyed no worker thread exists any more.
Thm_C16 ==
    [][/\ ~queue_alive' =>
            /\ g_terminate_flag'
            /\ \A t \in Workers : NoThreadIn(t)'
       /\ (queue_alive /\ ~queue_alive') =>
            /\ main_pc = "c_destroy"
            /\ producer_created_count = 0
            /\ consumer_created_count = 0
       /\ (main_pc # "c_destroy" /\ main_pc' = "c_destroy") =>
            /\ main_pc = "c_joinc"
            /\ \A t \in Workers : NoThreadIn(t)
       /\ (main_pc # "c_joinp" /\ main_pc' = "c_joinp") =>
            /\ main_pc = "c_wake"
            /\ g_terminate_flag
      ]_vars

\* the queue has been destroyed with messages still stored, after both
\* workers were woken out of a blocked call by the shutdown and joined
Wit_C16 ==
    /\ ~queue_alive
    /\ count > 0
    /\ \A t \in Workers : pc[t] = "joined" /\ rv[t] = 0 - 1

Orig_C18 ==
    [][(main_pc = "x_joinp" \/ main_pc = "x_joinc") =>
            (\A t \in Workers : Cancelled(t)' => Cancelled(t))]_vars

\* C19: once adding has been stopped for a role, no later 'p' / 'c' request
\* of that role creates a thread.
Orig_C19 ==
    [][/\ stop_requested["P"] =>
            producer_created_count' = producer_created_count
       /\ stop_requested["C"] =>
            consumer_created_count' = consumer_created_count
      ]_vars

\* the bytes the checksum is folded over: kind, length, then the first
\* `length` payload bytes
HashedBytes(m) == <<m.type, m.size>> \o [i \in 1..m.size |-> m.data[i - 1]]

\* the fold h' = h*33 + h + byte, modulo 2^16
RECURSIVE Fold34(_, _)
Fold34(h, bytes) ==
    IF bytes = <<>> THEN h
    ELSE Fold34((h * 33 + h + Head(bytes)) % (2 ^ 16), Tail(bytes))

\* the fold h' = h*33 + byte, modulo 2^16
RECURSIVE Fold33(_, _)
Fold33(h, bytes) ==
    IF bytes = <<>> THEN h
    ELSE Fold33((h * 33 + Head(bytes)) % (2 ^ 16), Tail(bytes))

\* messages that agree on kind, length and the first `length` payload bytes
SameHashedPart(m1, m2) == HashedBytes(m1) = HashedBytes(m2)

\* C20 as stated: calculate_message_hash returns, modulo 2^16, the fold of
\* h' = h*33 + h + byte from h = 0 over kind, length and the first `length`
\* payload bytes, and depends neither on the stored checksum nor on payload
\* bytes at index >= length.
Orig_C20 ==
    h_out # 0 - 1 =>
        /\ h_out = Fold34(0, HashedBytes(h_msg))
        /\ \A m \in Messages :
              SameHashedPart(m, h_msg) => calculate_message_hash(m) = h_out

\* C20, amended: the fold is h' = h*33 + byte, that is (h << 5) + h + byte,
\* modulo 2^16, from h = 0 over kind, length and the first `length` payload
\* bytes; the result depends neither on the stored checksum nor on payload
\* bytes at index >= length.
Thm_C20 ==
    h_out # 0 - 1 =>
        /\ h_out = Fold33(0, HashedBytes(h_msg))
        /\ h_out \in 0..(2 ^ 16 - 1)
        /\ \A m \in Messages :
              SameHashedPart(m, h_msg) => calculate_message_hash(m) = h_out

\* a hash has been calculated that wrapped around 2^16, for a message with
\* a non-zero stored checksum and non-zero payload bytes beyond its length
Wit_C20 ==
    /\ h_out # 0 - 1
    /\ h_msg.type = 255
    /\ h_msg.size = 2
    /\ h_msg.hash # 0
    /\ h_msg.data[0] = 255
    /\ h_msg.data[2] = 255
    /\ h_out = (((255 * 33 + 2) * 33 + 255) * 33 + h_msg.data[1]) % (2 ^ 16)
    /\ ((255 * 33 + 2) * 33 + 255) * 33 >= 2 ^ 16

\* C21: every record returned by a successful dequeue is field for field
\* the record passed to the enqueue that committed it, and the hash the
\* consumer recalculates over its copy, hash field zeroed, equals the stored
\* hash (hash_ok is never false) - whatever producers, consumers and
\* queue_resize did between the enqueue and the dequeue.
Thm_C21 ==
    /\ Len(deqSeq) <= Len(enqSeq)
    /\ \A i \in 1..Len(deqSeq) :
          /\ deqSeq[i] = enqSeq[i]
          /\ deqSeq[i].hash =
                calculate_message_hash([deqSeq[i] EXCEPT !.hash = 0])
    /\ \A c \in Consumers :
          /\ hash_ok[c] # "FAIL"
          /\ pc[c] = "stat" =>
                \E i \in 1..Len(deqSeq) : msg[c] = enqSeq[i]

\* a consumer has verified a record of the largest size whose hash wrapped
\* around 2^16, dequeued after the queue was resized
Wit_C21 ==
    /\ \E c \in Consumers : hash_ok[c] = "OK" /\ pc[c] = "stat"
    /\ Len(deqSeq) >= 2
    /\ deqSeq[Len(deqSeq)].size = MaxSize
    /\ deqSeq[Len(deqSeq)].hash # 0
    /\ capacity # CreateCapacity(INITIAL_QUEUE_CAPACITY)

\* C22: semaphore strategy: a shrinking queue_resize that is blocked in the
\* sem_wait that reclaims empty_slots permits does not stay blocked once the
\* termination flag is set: it observes the flag and returns.
Orig_C22 ==
    (g_sync_mode = SYNC_MODE_SEM /\ main_pc = "z_reclaim" /\ g_terminate_flag)
        ~> (main_pc # "z_reclaim")

\* C23: when queue_resize returns because the termination flag was seen
\* during the shrink-reclaim wait, the operation did not happen: the
\* capacity and the buffer (and with them head, tail and empty_slots) are
\* what they were when queue_resize was called.
Orig_C23 ==
    main_pc = "ret_cancel" =>
        /\ capacity = old_capacity
        /\ DOMAIN messages = 0..(old_capacity - 1)
        /\ tail_idx = (head_idx + count) % old_capacity

\* C24: when the allocation of the new buffer fails, queue_resize returns -1
\* and leaves the queue as it was: capacity, count, head, tail, the buffer
\* and both semaphores are unchanged, no worker is disturbed, and the mutex
\* is released, so that the workers can go on locking it.
Thm_C24 ==
    /\ [][(main_pc = "z_cs" /\ main_pc' = "ret_nomem") =>
              /\ m_rv' = 0 - 1
              /\ mutex = MainThread
              /\ mutex' = NoThread
              /\ UNCHANGED <<messages, capacity, count, head_idx, tail_idx,
                             added_count_total, extracted_count_total,
                             empty_slots, full_slots, pc>>]_vars
    /\ [](main_pc = "ret_nomem" =>
              /\ capacity = old_capacity
              /\ mutex # MainThread
              /\ m_rv = 0 - 1)

\* after a failed allocation, with queue_resize not yet back in the command
\* loop, a worker has locked the mutex for its commit
Wit_C24 ==
    /\ main_pc = "ret_nomem"
    /\ count >= 1
    /\ \E t \in Workers : mutex = t /\ pc[t] \in {"a_cs", "r_cs"}

\* C25 as stated: whenever the mutex is not held, (tail - head) mod capacity
\* = count, for every value of count from 0 up to and including capacity.
Orig_C25 ==
    mutex = NoThread => (tail_idx - head_idx) % capacity = count

\* C25, amended: whenever the mutex is not held, head and tail are indices
\* of the buffer and (tail - head) mod capacity = count mod capacity: the
\* difference is count while count < capacity and 0 when the queue is full
\* (tail = head); this also holds in the state left by a queue_resize.
Thm_C25 ==
    mutex \in {NoThread, DeadThread} =>
        /\ head_idx \in 0..(capacity - 1)
        /\ tail_idx \in 0..(capacity - 1)
        /\ (tail_idx - head_idx) % capacity = count % capacity
        /\ count < capacity => (tail_idx - head_idx) % capacity = count
        /\ count = capacity => tail_idx = head_idx

\* a successful shrink has left a full queue: tail = head = 0, count =
\* capacity
Wit_C25 ==
    /\ main_pc = "ret_ok"
    /\ mutex = NoThread
    /\ capacity < old_capacity
    /\ count = capacity
    /\ count >= 2
    /\ tail_idx = head_idx

\* the threads that are between pthread_mutex_lock and the unlock of a
\* section that reads or writes the buffer, its capacity, head, tail or count
InSection ==
    {t \in Workers : pc[t] \in {"a_cs", "r_cs", "a_park", "r_park"}}
        \cup (IF main_pc \in {"z_cs", "z_reclaim"} THEN {MainThread} ELSE {})

\* C26: at most one thread at a time is inside a section that changes the
\* buffer (enqueue commit, dequeue commit, buffer replacement of
\* queue_resize), and it is the owner of the mutex; no commit is made while
\* queue_resize is inside its section, and every commit finds a buffer of
\* `capacity` slots with head and tail inside it - under either strategy.
Thm_C26 ==
    /\ [](/\ Cardinality(InSection) <= 1
          /\ \A t \in InSection : mutex = t
          /\ DOMAIN messages = 0..(capacity - 1)
          /\ head_idx \in 0..(capacity - 1)
          /\ tail_idx \in 0..(capacity - 1))
    /\ [][/\ <<messages, capacity, head_idx, tail_idx, count>>'
                 # <<messages, capacity, head_idx, tail_idx, count>> =>
                /\ mutex \in InSection
                /\ mutex \notin InSection' \/ mutex = MainThread
          /\ count' # count => main_pc \notin {"z_cs", "z_reclaim"}
          /\ capacity' # capacity => main_pc = "z_cs" /\ mutex = MainThread
         ]_vars

\* queue_resize is inside its section, after it has replaced the buffer,
\* while a producer and a consumer wait for the mutex
Wit_C26 ==
    /\ main_pc = "z_reclaim"
    /\ capacity < old_capacity
    /\ \E p \in Producers : pc[p] = "a_lock"
    /\ \E c \in Consumers : pc[c] = "r_lock"

\* C27: semaphore strategy: while a shrinking queue_resize is blocked in the
\* sem_wait that reclaims empty_slots permits it does not hold the mutex, so
\* a producer or a consumer that wants the mutex for its commit can take it.
Orig_C27 ==
    (/\ g_sync_mode = SYNC_MODE_SEM
     /\ main_pc = "z_reclaim"
     /\ empty_slots = 0) =>
        /\ mutex # MainThread
        /\ (\E t \in Workers : pc[t] \in {"a_lock", "r_lock"}) =>
              (\E t \in Workers : ENABLED (queue_add_lock(t) \/ queue_remove_lock(t)))

\* C28: semaphore strategy: a producer that has passed the empty_slots wait
\* and the flag check finds count < capacity once it holds the mutex, and a
\* consumer that has passed the full_slots wait and the flag check finds
\* count > 0: the "queue full / empty after acquiring mutex" branches are
\* never taken, whatever queue_resize (completed or cancelled) and the
\* shutdown posts did in between.
Orig_C28 ==
    g_sync_mode = SYNC_MODE_SEM =>
        /\ \A p \in Producers : pc[p] = "a_cs" => count < capacity
        /\ \A c \in Consumers : pc[c] = "r_cs" => count > 0

\* C29: condition variable strategy: an enqueue commits only in a state with
\* count < capacity and a dequeue only with count > 0, whatever woke the
\* thread (signal, spurious wakeup, broadcast of queue_resize or of the
\* shutdown); a woken thread re-acquires the mutex and evaluates the wait
\* predicate again before anything else, and a call returns -1 only with
\* the termination flag set: the "still full / still empty after cond_wait"
\* branches are never taken.
Thm_C29 ==
    /\ [](g_sync_mode = SYNC_MODE_CONDVAR => count \in 0..capacity)
    /\ [][g_sync_mode = SYNC_MODE_CONDVAR =>
            /\ added_count_total' # added_count_total =>
                  count < capacity /\ count' = count + 1
            /\ extracted_count_total' # extracted_count_total =>
                  count > 0 /\ count' = count - 1
            /\ \A t \in Workers :
                  /\ (pc[t] = "a_parked" /\ pc'[t] # pc[t]) =>
                        pc'[t] \in {"a_lock", "x_relock"}
                  /\ (pc[t] = "r_parked" /\ pc'[t] # pc[t]) =>
                        pc'[t] \in {"r_lock", "x_relock"}
                  /\ (pc[t] = "a_lock" /\ pc'[t] # pc[t]) => pc'[t] = "a_cs"
                  /\ (pc[t] = "r_lock" /\ pc'[t] # pc[t]) => pc'[t] = "r_cs"
                  /\ (pc[t] \in {"a_cs", "r_cs"} /\ pc'[t] = "exit") =>
                        g_terminate_flag /\ rv'[t] = 0 - 1
         ]_vars

\* queue_resize has grown a full queue and broadcast; a producer holds the
\* mutex and is about to evaluate the predicate
Wit_C29 ==
    /\ g_sync_mode = SYNC_MODE_CONDVAR
    /\ main_pc = "ret_ok"
    /\ old_capacity < capacity
    /\ count = old_capacity
    /\ ~g_terminate_flag
    /\ \E p \in Producers : pc[p] = "a_cs" /\ mutex = p

\* C30: once the termination flag is set, a worker starts no call that
\* commits: a loop iteration that begins after it ends the thread, a thread
\* in or past sem_wait that has not passed the flag check returns -1 and
\* gives the permit back, a thread under the lock in the condition variable
\* strategy returns -1, and the queue is left as it is - also when it holds
\* records.  The only commits made with the flag set are those of
\* semaphore-strategy calls that passed the flag check before it was set, so
\* no permit posted by the shutdown is used to add or remove a record.
Thm_C30 ==
    [][g_terminate_flag =>
          /\ \A t \in Workers :
                pc'[t] # pc[t] =>
                   /\ pc[t] = "top" => pc'[t] \in {"exit", "canceled"}
                   /\ pc[t] \in {"a_wait", "r_wait"} =>
                         /\ pc'[t] \in {"a_chk", "r_chk", "exit", "canceled"}
                         /\ pc'[t] = "exit" => rv'[t] = 0 - 1
                   /\ pc[t] = "a_chk" =>
                         /\ pc'[t] = "exit" /\ rv'[t] = 0 - 1
                         /\ empty_slots' = empty_slots + 1
                         /\ UNCHANGED <<qvars, full_slots>>
                   /\ pc[t] = "r_chk" =>
                         /\ pc'[t] = "exit" /\ rv'[t] = 0 - 1
                         /\ full_slots' = full_slots + 1
                         /\ UNCHANGED <<qvars, empty_slots>>
                   /\ (g_sync_mode = SYNC_MODE_CONDVAR
                          /\ pc[t] \in {"a_cs", "r_cs"}) =>
                         /\ pc'[t] \in {"exit", "canceled"}
                         /\ pc'[t] = "exit" => rv'[t] = 0 - 1
                         /\ UNCHANGED qvars
          /\ <<count, added_count_total, extracted_count_total>>'
                 # <<count, added_count_total, extracted_count_total>> =>
                /\ g_sync_mode = SYNC_MODE_SEM
                /\ mutex \in Workers
                /\ pc[mutex] \in {"a_cs", "r_cs"}
      ]_vars

\* semaphore strategy, all shutdown posts made: the producer and the
\* consumer have both returned -1, the queue still holds records, and every
\* permit the shutdown posted is still in its semaphore
Wit_C30 ==
    /\ g_sync_mode = SYNC_MODE_SEM
    /\ main_pc = "c_joinp"
    /\ count > 0
    /\ count < capacity
    /\ \A t \in Workers : pc[t] = "exit" /\ rv[t] = 0 - 1
    /\ full_slots = count + ShutdownPosts
    /\ empty_slots = (capacity - count) + ShutdownPosts

\* the threads that have taken a permit from a semaphore and have not yet
\* posted one (the other semaphore after a commit, the same one otherwise)
PermitHolders ==
    {t \in Workers : pc[t] \in {"a_chk", "a_lock", "a_cs", "a_post",
                                "r_chk", "r_lock", "r_cs", "r_post"}}

\* C31: semaphore strategy, permit conservation.  Before termination and
\* with no queue_resize in progress, emptySlots + fullSlots + the number of
\* threads holding a consumed permit = capacity; a call that returns -1 after
\* it consumed a permit posts that same semaphore once in the same step; a
\* worker that is cancelled by CancelLast holds no consumed permit.
Thm_C31 ==
    /\ []((g_sync_mode = SYNC_MODE_SEM /\ ~g_terminate_flag
           /\ main_pc \notin {"z_lock", "z_cs", "z_reclaim"})
          => empty_slots + full_slots + Cardinality(PermitHolders) = capacity)
    /\ [][g_sync_mode = SYNC_MODE_SEM =>
            /\ \A p \in Producers :
                  (pc[p] \in {"a_chk", "a_lock", "a_cs"} /\ pc'[p] = "exit")
                      => /\ rv'[p] = 0 - 1
                         /\ empty_slots' = empty_slots + 1
                         /\ full_slots' = full_slots
            /\ \A c \in Consumers :
                  (pc[c] \in {"r_chk", "r_lock", "r_cs"} /\ pc'[c] = "exit")
                      => /\ rv'[c] = 0 - 1
                         /\ full_slots' = full_slots + 1
                         /\ empty_slots' = empty_slots
            /\ \A t \in Workers :
                  (pc'[t] = "canceled" /\ pc[t] # "canceled")
                      => t \notin PermitHolders]_vars

\* after a completed shrink and a forced cancel of the consumer, the producer
\* has committed and not yet posted, and the three numbers add up to the new
\* capacity
Wit_C31 ==
    /\ g_sync_mode = SYNC_MODE_SEM
    /\ ~g_terminate_flag
    /\ main_pc = "idle"
    /\ capacity < INITIAL_QUEUE_CAPACITY
    /\ \E p \in Producers : pc[p] = "a_post"
    /\ \E c \in Consumers : pc[c] = "joined"
    /\ empty_slots + full_slots = capacity - 1

Orig_C33 ==
    \A t \in Workers :
        (g_terminate_flag /\ pc[t] \notin {"none", "joined"})
            ~> (pc[t] = "joined")

\* C34: a successful queue_resize leaves head = 0 and tail = count, with
\* tail = 0 when count equals the new capacity, and the i-th live record
\* (i in 0..count-1, counted from the old head modulo the old capacity) at
\* index i of the new buffer.
Thm_C34 ==
    [][/\ capacity' # capacity =>
             /\ head_idx' = 0
             /\ tail_idx' = IF count' = capacity' THEN 0 ELSE count'
             /\ count' = count
             /\ DOMAIN messages' = 0..(capacity' - 1)
             /\ \A i \in 0..(count - 1) :
                   messages'[i] = messages[(head_idx + i) % capacity]
       /\ (main_pc # "ret_ok" /\ main_pc' = "ret_ok") =>
             /\ head_idx' = 0
             /\ tail_idx' = IF count' = capacity' THEN 0 ELSE count'
             /\ \A i \in 0..(count' - 1) :
                   messages'[i] = enqSeq'[Len(deqSeq') + i + 1]
      ]_vars

\* a resize of a wrapped ring has returned 0: the live records start at
\* index 0, they are fewer than the new capacity, tail = count
Wit_C34 ==
    /\ main_pc = "ret_ok"
    /\ resize_wrapped
    /\ count >= 1
    /\ count < capacity
    /\ head_idx = 0
    /\ tail_idx = count
    /\ messages[0] = enqSeq[Len(deqSeq) + 1]

\* C35 as stated: in the realloc variant of queue_resize the live records
\* are still dequeued in their enqueue order after a grow or a shrink, also
\* when the ring was wrapped, and head_idx / tail_idx still delimit exactly
\* the live records.
Orig_C35 ==
    /\ IsPrefix(deqSeq, enqSeq)
    /\ mutex = NoThread =>
          /\ tail_idx = (head_idx + count) % capacity
          /\ enqSeq = deqSeq \o Contents

\* C36 as stated: semaphore strategy, no termination pending, a consumer
\* running: queue_resize is never blocked in the reclaim sem_wait of an
\* accepted shrink while every thread that could post empty_slots is blocked
\* behind it; that is, whenever the reclaim finds no permit, some consumer
\* that has left the locked section is about to post one.
Orig_C36 ==
    (/\ g_sync_mode = SYNC_MODE_SEM
     /\ ~g_terminate_flag
     /\ consumer_created_count > 0
     /\ main_pc = "z_reclaim"
     /\ empty_slots = 0)
        => \E c \in Consumers : pc[c] = "r_post"

\* C37 as stated: no worker thread terminates while it owns the queue
\* mutex, whether it returns from its thread function or is cancelled by
\* CancelLast: the mutex is never owned by a thread that has ended.
Orig_C37 ==
    /\ mutex # DeadThread
    /\ \A t \in Workers :
          pc[t] \in {"none", "exit", "canceled", "joined"} => mutex # t

\* C38: in the stop-adding variant the index at which the handle of a new
\* thread is stored (the created count of its role) is always below the
\* maximum of the role, and the number of threads the shutdown joins (the
\* created count) never exceeds that maximum.
Orig_C38 ==
    /\ [][/\ producer_created_count' > producer_created_count =>
                producer_created_count < MAX_PRODUCERS
          /\ consumer_created_count' > consumer_created_count =>
                consumer_created_count < MAX_CONSUMERS
         ]_vars
    /\ [](/\ producer_created_count <= MAX_PRODUCERS
          /\ consumer_created_count <= MAX_CONSUMERS)

\* C39: frame conditions of the queue. A committed add changes only the tail
\* index, the count, the total of added records and the one slot at the old
\* tail; a committed remove changes only the head index, the count and the
\* total of extracted records; a step that changes the capacity is the commit
\* of queue_resize and changes neither the count, the totals nor the logical
\* sequence of stored records; a call of queue_resize that returns -1 leaves
\* the capacity as it found it; the totals never decrease.
Orig_C39 ==
    /\ [][/\ count' = count + 1 =>
                /\ tail_idx' = (tail_idx + 1) % capacity
                /\ added_count_total' = added_count_total + 1
                /\ UNCHANGED <<head_idx, capacity, extracted_count_total>>
                /\ DOMAIN messages' = DOMAIN messages
                /\ \A i \in DOMAIN messages :
                        i # tail_idx => messages'[i] = messages[i]
          /\ count' = count - 1 =>
                /\ head_idx' = (head_idx + 1) % capacity
                /\ extracted_count_total' = extracted_count_total + 1
                /\ UNCHANGED <<tail_idx, capacity, added_count_total,
                               messages>>
          /\ capacity' # capacity =>
                /\ main_pc = "z_cs"
                /\ UNCHANGED <<count, added_count_total,
                               extracted_count_total>>
                /\ Contents' = Contents
          /\ added_count_total' >= added_count_total
          /\ extracted_count_total' >= extracted_count_total
         ]_vars
    /\ []((main_pc \in {"ret_reject", "ret_nomem", "ret_cancel"}
           /\ m_rv # 0) => capacity = old_capacity)

\* the abstract bounded FIFO queue, seen through the queue fields: a step of
\* the program leaves the abstract queue alone or is one of its operations,
\* taken where the abstract queue allows it
AbsStutter ==
    /\ UNCHANGED <<capacity, count, added_count_total, extracted_count_total>>
    /\ Contents' = Contents

\* a record is appended while there is room
AbsEnqueue ==
    /\ count < capacity
    /\ count' = count + 1
    /\ added_count_total' = added_count_total + 1
    /\ UNCHANGED <<capacity, extracted_count_total>>
    /\ \E m \in {messages'[tail_idx]} : Contents' = Append(Contents, m)

\* the oldest record is taken while there is one
AbsDequeue ==
    /\ count > 0
    /\ count' = count - 1
    /\ extracted_count_total' = extracted_count_total + 1
    /\ UNCHANGED <<capacity, added_count_total>>
    /\ Contents' = Tail(Contents)
    /\ \E c \in Consumers : pc[c] = "r_cs" /\ msg'[c] = Head(Contents)

\* the capacity is changed to a value that still holds every stored record
AbsResize ==
    /\ capacity' # capacity
    /\ capacity' >= count
    /\ capacity' \in MIN_QUEUE_CAPACITY..MAX_QUEUE_CAPACITY
    /\ Contents' = Contents
    /\ UNCHANGED <<count, added_count_total, extracted_count_total>>

\* under strategy `mode`, an operation that has been requested and that the
\* abstract queue allows is carried out
Responsive(mode) ==
    /\ \A n \in 0..MaxMsgs :
          (/\ g_sync_mode = mode
           /\ \E p \in Producers : EnqPending(p)
           /\ count < capacity
           /\ added_count_total = n)
          ~> (added_count_total > n \/ count = capacity)
    /\ \A n \in 0..MaxMsgs :
          (/\ g_sync_mode = mode
           /\ \E c \in Consumers : DeqPending(c)
           /\ count > 0
           /\ extracted_count_total = n)
          ~> (extracted_count_total > n \/ count = 0)
    /\ (g_sync_mode = mode /\ main_pc = "z_lock") ~> (main_pc \in RetPcs)

\* C40: the two strategies are interchangeable: under either of them every
\* step is a stutter or an operation of one and the same abstract bounded
\* FIFO queue (so that the same sequence of committed operations gives the
\* same count, capacity, totals and contents), and under either of them an
\* operation that the abstract queue allows is carried out once requested.
Orig_C40 ==
    /\ [][AbsStutter \/ AbsEnqueue \/ AbsDequeue \/ AbsResize]_vars
    /\ Responsive(SYNC_MODE_SEM)
    /\ Responsive(SYNC_MODE_CONDVAR)

====
